---------------------------- MODULE Spec2Model ----------------------------
(***************************************************************************)
(* External merge sort (wknn-bfb/External-Sorting-Cpp).                    *)
(*                                                                         *)
(* The module models, from the C++ sources,                                *)
(*   - RunFile      : header + fixed directory + append-only data region,  *)
(*   - OutputBuffer : block writer bound to a start offset,                *)
(*   - InputBuffer  : block reader bound to one run,                       *)
(*   - LoserTree    : tournament tree keyed by (runID, value),             *)
(*   - RunGenerator : replacement selection with an input worker, a        *)
(*                    compute thread and an output worker (project2),      *)
(*   - Merger       : two-way merge and the min-heap (Huffman) driver.     *)
(*                                                                         *)
(* File offsets are byte offsets, as in the code.  The element type is     *)
(* T = int.  The run file on disk is a record: its header, its directory   *)
(* (slot i lives at byte SizeofRunFileHeader + i * SizeofRunMetadata) and  *)
(* its data region, a sequence of elements (element j, counted from 0,     *)
(* lives at byte DataStart + j * SizeofT).                                 *)
(***************************************************************************)
EXTENDS Integers, Sequences, FiniteSets, TLC

\* ------------------------------------------------------------------------
\* Bounds of the model (not program constants)
\* ------------------------------------------------------------------------
\* largest maxRuns handed to RunFile::create in the RunFile specification
MaxDirSlots == 2

\* most elements the data region holds in the RunFile specification
MaxData == 2

\* largest block capacity of an OutputBuffer in the RunFile specification
MaxBlock == 2

\* largest k of a LoserTree in the LoserTree specification
MaxTreeK == 3

\* most runs handed to externalMergeSort in the Merge specification
MaxMergeRuns == 3

\* most elements of one of those runs
MaxRunLen == 2

\* block capacities of the buffers of MergeInMem: the program's
\* MERGE_INPUT_BUFFER_ELEMENTS and MERGE_OUTPUT_BUFFER_ELEMENTS are 1024;
\* scaled down so that the runs of the model span several blocks
MergeInputBlock == 2
MergeOutputBlock == 2

\* most elements of a run in the InputBuffer and OutputBuffer specifications
MaxBufRunLen == 3

\* most calls made after the last element in those specifications
MaxExtraCalls == 2

\* most elements of the input file in the Sort specification
MaxInputLen == 4

\* largest workspace size k and largest block size bufSize of a RunGenerator
MaxK == 2
MaxBufSize == 2

\* longest input of the sorts run on a directory sized for them
MaxSizedLen == 4

\* longest input of the runs checked under fair scheduling
MaxFairLen == 4

\* element values written through buffers in the RunFile specification
RFValues == {7, 8}

\* values and run ids handed to the LoserTree in the LoserTree specification
LTValues == {1, 2}
LTRunIDs == {1, 2}

\* element values of the runs in the Merge specification
MergeValues == {1, 2}

\* element values of the input file in the Sort specification
GenValues == {1, 2, 3}

\* ... and its element values
FairValues == {1, 2}

\* element values of the sorts on a sized directory: enough of them for an
\* input that descends all the way
SizedValues == 1 .. MaxSizedLen

\* ------------------------------------------------------------------------
\* Program constants
\* ------------------------------------------------------------------------
\* sizeof(T), T = int
SizeofT == 4

\* sizeof(RunFileHeader): char[4], int, int
SizeofRunFileHeader == 12

\* sizeof(RunMetadata): long long, long long, bool (padded)
SizeofRunMetadata == 24

\* std::numeric_limits<int>::max()
INT_MAX == 2147483647

Min2(a, b) == IF a <= b THEN a ELSE b

\* ------------------------------------------------------------------------
\* RunFile.h : RunMetadata, RunFileHeader
\* ------------------------------------------------------------------------
\* RunMetadata(): startOffset(0), elementCount(0), isUsed(false)
RunMetadata == [startOffset |-> 0, elementCount |-> 0, isUsed |-> FALSE]

\* RunFileHeader(max_runs): magic "RUNS", maxRuns, currentRunCount(0)
RunFileHeader(max_runs) ==
    [magic |-> "RUNS", maxRuns |-> max_runs, currentRunCount |-> 0]

\* directory.assign(maxRuns, RunMetadata())
EmptyDirectory(maxRuns) == [i \in 0 .. maxRuns - 1 |-> RunMetadata]

\* the file before RunFile::create has run: it does not exist.  A file is
\* truncated when it is shorter than a header (it is empty).
NoFile == [exists |-> FALSE, truncated |-> FALSE, header |-> RunFileHeader(0),
           dir |-> EmptyDirectory(0), data |-> << >>]

\* first byte of the data region of a file whose directory has n slots
DataStart(n) == SizeofRunFileHeader + n * SizeofRunMetadata

\* length of the file in bytes
FileLength(d) == DataStart(d.header.maxRuns) + Len(d.data) * SizeofT

\* sequences over S of length 0 .. n
RECURSIVE SeqsUpTo(_, _)
SeqsUpTo(S, n) ==
    IF n = 0 THEN {<< >>}
    ELSE SeqsUpTo(S, n - 1) \cup
         {Append(q, x) : q \in {r \in SeqsUpTo(S, n - 1) : Len(r) = n - 1}, x \in S}

VARIABLES
    \* ---- RunFile object and the file it owns
    file_is_open,       \* file.is_open()
    failbit,            \* the fstream's fail state: every read, write, seek is a no-op
    header,             \* RunFile::header (in memory)
    directory,          \* RunFile::directory (in memory)
    disk,               \* the bytes of the file
    \* ---- observation of the RunFile / OutputBuffer calls of a client
    rfCall,             \* last call of the client: its name, its runId, its result
    phase,              \* the client's position in the life cycle of the file
    outBuf,             \* the client's OutputBuffer (or NoBuffer)
    \* ---- LoserTree object
    loserTree,          \* [k, tree, leaves]
    ltState,            \* "constructed" until initialize() has been called
    \* ---- Merger::externalMergeSort
    initialRuns,        \* the argument initialRuns
    mergeHeap,          \* the elements held by mergeHeap
    msPc,               \* position of externalMergeSort
    mergeCost,          \* sum of runA.elementCount + runB.elementCount so far
    lastMerge,          \* arguments and result of the last MergeInMem call
    finalRun,           \* the run externalMergeSort returned
    \* ---- RunGenerator (project2) and its three threads
    gen,                \* the fields of the RunGenerator object
    inputFile,          \* RunGenerator::inputFile and the input file's elements
    mtx,                \* the thread that holds RunGenerator::mtx, or "none"
    cw,                 \* the thread in generateRuns / computeWorker: position, locals
    iw,                 \* inputWorker: position, count
    ow,                 \* outputWorker: position, count
    \* ---- observation of buffer clients and of the generator
    inBuf,              \* a client's InputBuffer (or NoInputBuffer)
    trace,              \* the calls a buffer client has made, with their results
    hist                \* what generateRuns has emitted, written, allocated, sealed

rfVars == <<file_is_open, failbit, header, directory, disk>>
clientVars == <<rfCall, phase, outBuf>>
ltVars == <<loserTree, ltState>>
mergeVars == <<initialRuns, mergeHeap, msPc, mergeCost, lastMerge, finalRun>>
genVars == <<gen, inputFile, mtx, cw, iw, ow>>
obsVars == <<inBuf, trace, hist>>
vars == <<rfVars, clientVars, ltVars, mergeVars, genVars, obsVars>>

\* no MergeInMem call has been made; count is the number of calls so far
NoMerge == [called |-> FALSE, runA |-> RunMetadata, runB |-> RunMetadata,
            threw |-> FALSE, mergedRun |-> RunMetadata, writes |-> << >>,
            order |-> << >>, count |-> 0]


\* ------------------------------------------------------------------------
\* RunFile.h : the operations, as functions of the object and the file
\* ------------------------------------------------------------------------
\* writeMetadataToDisk(runId): the in-memory entry dir[runId] is written at
\* byte SizeofRunFileHeader + runId * SizeofRunMetadata, i.e. into slot
\* runId of the file's directory.  A stream in fail state writes nothing.
WriteMetadataToDiskSkip(d, open, fail, hdr, dir, runId) == d

WriteMetadataToDisk(d, open, fail, hdr, dir, runId) ==
    IF ~open \/ runId < 0 \/ runId >= hdr.maxRuns THEN d
    ELSE IF fail \/ runId \notin DOMAIN d.dir THEN d
    ELSE [d EXCEPT !.dir[runId] = dir[runId]]

\* a scan that starts at slot 1
FreeSlotsFromOne(hdr, dir) == {i \in 1 .. hdr.maxRuns - 1 : ~dir[i].isUsed}

\* the scan of allocateNewRun: the first slot with isUsed = false, or -1
FreeSlots(hdr, dir) == {i \in 0 .. hdr.maxRuns - 1 : ~dir[i].isUsed}

AllocSlotLast(hdr, dir) ==
    IF FreeSlots(hdr, dir) = {} THEN -1
    ELSE CHOOSE i \in FreeSlots(hdr, dir) : \A j \in FreeSlots(hdr, dir) : j <= i

AllocSlot(hdr, dir) ==
    IF FreeSlots(hdr, dir) = {} THEN -1
    ELSE CHOOSE i \in FreeSlots(hdr, dir) : \A j \in FreeSlots(hdr, dir) : i <= j

\* allocateNewRun(): the directory after the call
AllocDirectory(hdr, dir) ==
    IF AllocSlot(hdr, dir) = -1 THEN dir
    ELSE [dir EXCEPT ![AllocSlot(hdr, dir)] =
              [startOffset |-> 0, elementCount |-> 0, isUsed |-> TRUE]]

\* allocateNewRun(): the header after the call (currentRunCount++)
AllocHeader(hdr, dir) ==
    IF AllocSlot(hdr, dir) = -1 THEN hdr
    ELSE [hdr EXCEPT !.currentRunCount = @ + 1]

\* allocateNewRun(): the file after the call
AllocDisk(d, open, fail, hdr, dir) ==
    IF AllocSlot(hdr, dir) = -1 THEN d
    ELSE WriteMetadataToDisk(d, open, fail, hdr, AllocDirectory(hdr, dir),
                             AllocSlot(hdr, dir))

\* updateRunMetadata: the range check that throws std::out_of_range
InvalidRunId(hdr, runId) == runId < 0 \/ runId >= hdr.maxRuns

\* updateRunMetadata(runId, startOffset, elementCount): the directory after
UpdateDirectoryFlag(dir, runId, startOffset, elementCount) ==
    [dir EXCEPT ![runId] = [startOffset |-> startOffset,
                            elementCount |-> elementCount,
                            isUsed |-> TRUE]]

UpdateDirectory(dir, runId, startOffset, elementCount) ==
    [dir EXCEPT ![runId].startOffset = startOffset,
                ![runId].elementCount = elementCount]

\* the start of the data region, whatever the file holds
AppendOffsetAtDataStart(d, open, fail) == DataStart(d.header.maxRuns)

\* getAppendOffset(): seekp(0, end); tellp() -- -1 on a closed or failed stream
GetAppendOffset(d, open, fail) ==
    IF ~open \/ fail THEN -1 ELSE FileLength(d)

\* a block of elements written at byte offset off of the data region
\* (seekp(off); write(block)); bytes skipped past the end read as 0
Zeros(n) == [i \in 1 .. n |-> 0]

WriteElements(data, idx, block) ==
    LET n == Len(data)
        before == IF idx <= n THEN SubSeq(data, 1, idx)
                  ELSE data \o Zeros(idx - n)
        after == IF idx + Len(block) < n
                 THEN SubSeq(data, idx + Len(block) + 1, n) ELSE << >>
    IN  before \o block \o after

StreamWrite(d, open, fail, off, block) ==
    IF ~open \/ fail \/ off < DataStart(d.header.maxRuns) THEN d
    ELSE [d EXCEPT !.data =
             WriteElements(@, (off - DataStart(d.header.maxRuns)) \div SizeofT,
                           block)]

\* count elements read at byte offset off (seekg(off); read(count * sizeof(T)))
StreamRead(d, off, count) ==
    LET idx == (off - DataStart(d.header.maxRuns)) \div SizeofT
    IN  [i \in 1 .. count |->
            IF idx + i \in 1 .. Len(d.data) THEN d.data[idx + i] ELSE 0]

\* ------------------------------------------------------------------------
\* OutputBuffer.h
\* ------------------------------------------------------------------------
NoBuffer == [runStartOffset |-> -1, bufferSizeInElements |-> 0,
             buffer |-> << >>, totalElementsWritten |-> 0]

\* OutputBuffer(fs, startOffset, bufferSizeInElements); the field buffer is
\* the filled part buffer[0 .. currentBufferIndex)
OutputBuffer(startOffset, bufferSizeInElements) ==
    [runStartOffset |-> startOffset,
     bufferSizeInElements |-> bufferSizeInElements,
     buffer |-> << >>, totalElementsWritten |-> 0]

currentBufferIndex(ob) == Len(ob.buffer)

\* writeBlock(): the buffer object after the call
WriteBlockBuf(ob, open) ==
    IF ~open \/ currentBufferIndex(ob) = 0 THEN ob
    ELSE [ob EXCEPT !.totalElementsWritten = @ + currentBufferIndex(ob),
                    !.buffer = << >>]

\* a writeOffset that is always the start of the run
WriteOffsetAtStart(ob) == ob.runStartOffset

\* writeBlock(): writeOffset = runStartOffset + totalElementsWritten * sizeof(T)
WriteOffset(ob) == ob.runStartOffset + ob.totalElementsWritten * SizeofT

\* writeBlock(): the file after the call
WriteBlockDisk(ob, d, open, fail) ==
    IF ~open \/ currentBufferIndex(ob) = 0 THEN d
    ELSE StreamWrite(d, open, fail, WriteOffset(ob), ob.buffer)

\* writeBlock(): the seekp offset and the block handed to write, or NoWrite
NoWrite == [off |-> -1, block |-> << >>]

WriteBlockCall(ob, open) ==
    IF ~open \/ currentBufferIndex(ob) = 0 THEN NoWrite
    ELSE [off |-> WriteOffset(ob), block |-> ob.buffer]

\* setNextItem(item)
SetNextItemBuf(ob, open, item) ==
    LET ob1 == [ob EXCEPT !.buffer = Append(@, item)]
    IN  IF currentBufferIndex(ob1) = ob.bufferSizeInElements
        THEN WriteBlockBuf(ob1, open) ELSE ob1

SetNextItemDisk(ob, d, open, fail, item) ==
    LET ob1 == [ob EXCEPT !.buffer = Append(@, item)]
    IN  IF currentBufferIndex(ob1) = ob.bufferSizeInElements
        THEN WriteBlockDisk(ob1, d, open, fail) ELSE d

\* setNextItem(item): the write it makes
SetNextItemCall(ob, open, item) ==
    LET ob1 == [ob EXCEPT !.buffer = Append(@, item)]
    IN  IF currentBufferIndex(ob1) = ob.bufferSizeInElements
        THEN WriteBlockCall(ob1, open) ELSE NoWrite

\* flush(): the write it makes
FlushCall(ob, open) ==
    IF currentBufferIndex(ob) > 0 THEN WriteBlockCall(ob, open) ELSE NoWrite

\* flush()
FlushBuf(ob, open) ==
    IF currentBufferIndex(ob) > 0 THEN WriteBlockBuf(ob, open) ELSE ob

FlushDisk(ob, d, open, fail) ==
    IF currentBufferIndex(ob) > 0 THEN WriteBlockDisk(ob, d, open, fail) ELSE d

\* getElementCount()
GetElementCount(ob) == ob.totalElementsWritten + currentBufferIndex(ob)


\* ------------------------------------------------------------------------
\* InputBuffer.h
\* ------------------------------------------------------------------------
\* InputBuffer(fs, meta, bufferSizeInElements); the field buffer holds the
\* elementsInBuffer elements of the block read last
InputBuffer(meta, bufferSizeInElements) ==
    [runMeta |-> meta, bufferSizeInElements |-> bufferSizeInElements,
     buffer |-> << >>, currentIndexInBuffer |-> 0, elementsInBuffer |-> 0,
     totalElementsRead |-> 0]

\* readBlock(): does it read a block
ReadBlockOk(ib) ==
    /\ ib.totalElementsRead < ib.runMeta.elementCount
    /\ Min2(ib.bufferSizeInElements,
            ib.runMeta.elementCount - ib.totalElementsRead) > 0

\* a readBlock() that reads every block at the start of the run
ReadBlockFromStart(ib, d) ==
    LET elementsToRead == Min2(ib.bufferSizeInElements,
                               ib.runMeta.elementCount - ib.totalElementsRead)
    IN  [ib EXCEPT !.buffer = StreamRead(d, ib.runMeta.startOffset, elementsToRead),
                   !.elementsInBuffer = elementsToRead,
                   !.totalElementsRead = @ + elementsToRead,
                   !.currentIndexInBuffer = 0]

\* readBlock(): the buffer object after a block was read from the file d
ReadBlock(ib, d) ==
    LET elementsToRead == Min2(ib.bufferSizeInElements,
                               ib.runMeta.elementCount - ib.totalElementsRead)
        readOffset == ib.runMeta.startOffset + ib.totalElementsRead * SizeofT
    IN  [ib EXCEPT !.buffer = StreamRead(d, readOffset, elementsToRead),
                   !.elementsInBuffer = elementsToRead,
                   !.totalElementsRead = @ + elementsToRead,
                   !.currentIndexInBuffer = 0]

\* getNextItem(item): its result, the item and the buffer object after
GetNextItem(ib, d) ==
    IF ib.currentIndexInBuffer >= ib.elementsInBuffer /\ ~ReadBlockOk(ib)
    THEN [ok |-> FALSE, item |-> 0, ib |-> ib]
    ELSE LET ib1 == IF ib.currentIndexInBuffer >= ib.elementsInBuffer
                    THEN ReadBlock(ib, d) ELSE ib
         IN  [ok |-> TRUE, item |-> ib1.buffer[ib1.currentIndexInBuffer + 1],
              ib |-> [ib1 EXCEPT !.currentIndexInBuffer = @ + 1]]

\* A is taken on a tie as well
MergeTakesAOnTie(itemA, itemB) == itemA <= itemB

\* ------------------------------------------------------------------------
\* Merger.h (project2; MergeInMem is the same text in project1)
\* ------------------------------------------------------------------------
\* the comparison turned around
MergeTakesLarger(itemA, itemB) == itemA > itemB

\* if (itemA < itemB) emit A else emit B
MergeTakesA(itemA, itemB) == itemA < itemB

\* the log of the writes made so far, after a call that made the write w
Logged(writes, w) == IF w = NoWrite THEN writes ELSE Append(writes, w)

\* one iteration of the merge loops of MergeInMem: the head of one input is
\* handed to the OutputBuffer and that input is advanced; order notes the
\* input each element was taken from
MergeEmit(st, fromA) ==
    LET item == IF fromA THEN st.itemA ELSE st.itemB
        d1 == SetNextItemDisk(st.out, st.d, st.open, st.fail, item)
        out1 == SetNextItemBuf(st.out, st.open, item)
        nxt == GetNextItem(IF fromA THEN st.inA ELSE st.inB, d1)
    IN  IF fromA
        THEN [st EXCEPT !.d = d1, !.out = out1, !.inA = nxt.ib,
                        !.order = Append(@, "A"),
                        !.writes = Logged(@, SetNextItemCall(st.out, st.open, item)),
                        !.hasA = nxt.ok,
                        !.itemA = IF nxt.ok THEN nxt.item ELSE st.itemA]
        ELSE [st EXCEPT !.d = d1, !.out = out1, !.inB = nxt.ib,
                        !.order = Append(@, "B"),
                        !.writes = Logged(@, SetNextItemCall(st.out, st.open, item)),
                        !.hasB = nxt.ok,
                        !.itemB = IF nxt.ok THEN nxt.item ELSE st.itemB]

\* the merge loops without the last one
RECURSIVE MergeLoopsNoDrainB(_)
MergeLoopsNoDrainB(st) ==
    IF st.hasA /\ st.hasB
    THEN MergeLoopsNoDrainB(MergeEmit(st, MergeTakesA(st.itemA, st.itemB)))
    ELSE IF st.hasA THEN MergeLoopsNoDrainB(MergeEmit(st, TRUE))
    ELSE st

\* while (hasA && hasB) {...} while (hasA) {...} while (hasB) {...}
RECURSIVE MergeLoops(_)
MergeLoops(st) ==
    IF st.hasA /\ st.hasB
    THEN MergeLoops(MergeEmit(st, MergeTakesA(st.itemA, st.itemB)))
    ELSE IF st.hasA THEN MergeLoops(MergeEmit(st, TRUE))
    ELSE IF st.hasB THEN MergeLoops(MergeEmit(st, FALSE))
    ELSE st

\* MergeInMem(runFile, runA, runB): [threw, header, directory, disk, run],
\* the writes its OutputBuffer made and the input each element came from.
\* capIn and capOut are the block capacities of the buffers.
MergeInMem(hdr, dir, d, open, fail, runA, runB, capIn, capOut) ==
    LET newRunId == AllocSlot(hdr, dir)
        hdr1 == AllocHeader(hdr, dir)
        dir1 == AllocDirectory(hdr, dir)
        d1 == AllocDisk(d, open, fail, hdr, dir)
        startOffset == GetAppendOffset(d1, open, fail)
        firstA == GetNextItem(InputBuffer(runA, capIn), d1)
        firstB == GetNextItem(InputBuffer(runB, capIn), d1)
        st == MergeLoops([inA |-> firstA.ib, inB |-> firstB.ib,
                          hasA |-> firstA.ok, itemA |-> firstA.item,
                          hasB |-> firstB.ok, itemB |-> firstB.item,
                          out |-> OutputBuffer(startOffset, capOut),
                          d |-> d1, open |-> open, fail |-> fail,
                          writes |-> << >>, order |-> << >>])
        d2 == FlushDisk(st.out, st.d, open, fail)
        totalElements == GetElementCount(FlushBuf(st.out, open))
        dir2 == UpdateDirectory(dir1, newRunId, startOffset, totalElements)
    IN  IF newRunId = -1
        THEN [threw |-> TRUE, header |-> hdr, directory |-> dir, disk |-> d,
              run |-> RunMetadata, writes |-> << >>, order |-> << >>]
        ELSE [threw |-> FALSE, header |-> hdr1, directory |-> dir2,
              disk |-> WriteMetadataToDisk(d2, open, fail, hdr1, dir2, newRunId),
              run |-> dir2[newRunId],
              writes |-> Logged(st.writes, FlushCall(st.out, open)),
              order |-> st.order]

\* the order turned around (a max-heap)
CompareRunMetadataLess(a, b) == a.elementCount < b.elementCount

\* CompareRunMetadata: a.elementCount > b.elementCount (a min-heap)
CompareRunMetadata(a, b) == a.elementCount > b.elementCount

\* the runs are taken in the order they were pushed
HeapTopsFirst(heap) == {1}

\* mergeHeap.top(): an element no other element is ordered before; which
\* of several equal ones the heap yields is the library's choice
HeapTops(heap) ==
    {i \in 1 .. Len(heap) :
        \A j \in 1 .. Len(heap) : ~CompareRunMetadata(heap[i], heap[j])}

\* mergeHeap.pop() of the element at position i
HeapPop(heap, i) == SubSeq(heap, 1, i - 1) \o SubSeq(heap, i + 1, Len(heap))

\* ------------------------------------------------------------------------
\* LoserTree.h
\* ------------------------------------------------------------------------
RunNode(v, id) == [value |-> v, runID |-> id]

\* SENTINEL.value = numeric_limits<T>::max(); SENTINEL.runID = numeric_limits<int>::max()
SENTINEL == RunNode(INT_MAX, INT_MAX)

\* the key of the later run wins
isLoserLaterRunWins(playerA, playerB) ==
    IF playerA.runID # playerB.runID
    THEN playerA.runID < playerB.runID
    ELSE playerA.value > playerB.value

\* the order compares the values only
isLoserByValue(playerA, playerB) == playerA.value > playerB.value

\* isLoser(playerA, playerB): playerA loses to playerB
isLoser(playerA, playerB) ==
    IF playerA.runID # playerB.runID
    THEN playerA.runID > playerB.runID
    ELSE playerA.value > playerB.value

\* LoserTree(k): tree.resize(k), leaves.resize(k + 1), leaves[k] = SENTINEL
NewLoserTree(k) ==
    [k |-> k, tree |-> [i \in 0 .. k - 1 |-> 0],
     leaves |-> [i \in 0 .. k |-> SENTINEL]]

\* the loop of replay(): while (parent > 0) {...}; tree[0] = currentWinner
RECURSIVE ReplayLoop(_, _, _)
ReplayLoop(lt, parent, currentWinner) ==
    IF parent > 0
    THEN IF isLoser(lt.leaves[currentWinner], lt.leaves[lt.tree[parent]])
         THEN ReplayLoop([lt EXCEPT !.tree[parent] = currentWinner],
                         parent \div 2, lt.tree[parent])
         ELSE ReplayLoop(lt, parent \div 2, currentWinner)
    ELSE [lt EXCEPT !.tree[0] = currentWinner]

\* replay(playerIndex)
ReplaySkipFirstMatch(lt, playerIndex) ==
    ReplayLoop(lt, ((playerIndex + lt.k) \div 2) \div 2, playerIndex)

replay(lt, playerIndex) ==
    ReplayLoop(lt, (playerIndex + lt.k) \div 2, playerIndex)

\* initialize(), step 3, the inner loop for one leaf
RECURSIVE InitWalk(_, _, _)
InitWalk(lt, current, parent) ==
    IF parent > 0
    THEN IF lt.tree[parent] = lt.k
         THEN [lt EXCEPT !.tree[parent] = current]
         ELSE IF isLoser(lt.leaves[current], lt.leaves[lt.tree[parent]])
              THEN InitWalk([lt EXCEPT !.tree[parent] = current],
                            lt.tree[parent], parent \div 2)
              ELSE InitWalk(lt, current, parent \div 2)
    ELSE [lt EXCEPT !.tree[0] = current]

\* initialize(), step 3: for (int i = k - 1; i >= 0; --i)
RECURSIVE InitBuild(_, _)
InitBuild(lt, i) ==
    IF i < 0 THEN lt
    ELSE InitBuild(InitWalk(lt, i, (i + lt.k) \div 2), i - 1)

\* initialize(initialData)
initialize(lt, initialData) ==
    InitBuild([lt EXCEPT
                 !.leaves = [i \in 0 .. lt.k |->
                                IF i < lt.k /\ i < Len(initialData)
                                THEN RunNode(initialData[i + 1], 1)
                                ELSE SENTINEL],
                 !.tree = [i \in 0 .. lt.k - 1 |-> lt.k]],
              lt.k - 1)

\* getWinner()
getWinner(lt) == lt.leaves[lt.tree[0]]

\* replaceWinner(newValue, newRunID)
replaceWinner(lt, newValue, newRunID) ==
    replay([lt EXCEPT !.leaves[lt.tree[0]] = RunNode(newValue, newRunID)],
           lt.tree[0])

\* setWinnerToSentinel()
setWinnerToSentinel(lt) ==
    replay([lt EXCEPT !.leaves[lt.tree[0]] = SENTINEL], lt.tree[0])

\* ------------------------------------------------------------------------
\* RunGenerator.h (project2)
\* ------------------------------------------------------------------------
\* std::vector<T>::resize(n)
Resize(v, n) == IF n <= Len(v) THEN SubSeq(v, 1, n) ELSE v \o Zeros(n - Len(v))

\* RunGenerator(memSizeForLoserTree, bufferSize); activeIn and activeOut name
\* the vector the pointer refers to, the standby pointer refers to the other
RunGenerator(memSizeForLoserTree, bufferSize) ==
    [K |-> memSizeForLoserTree, bufSize |-> bufferSize,
     inBufA |-> << >>, inBufB |-> Zeros(bufferSize),
     outBufA |-> << >>, outBufB |-> Zeros(bufferSize),
     activeIn |-> "A", activeOut |-> "A", activeInIdx |-> 0,
     stop_threads |-> FALSE, standby_input_ready |-> FALSE,
     standby_output_busy |-> FALSE, input_eof |-> FALSE,
     currentRunStartOffset |-> 0, totalElementsInRun |-> 0,
     currentRunId |-> 0, generatedRuns |-> << >>,
     cv_input |-> {}, cv_output |-> {}, cv_compute |-> {}]

\* no input file is attached
NoInputFile == [data |-> << >>, pos |-> 0, eof |-> FALSE, is_open |-> FALSE]

\* generateRuns has not been called
ComputeIdle == [pc |-> "idle", initialData |-> << >>, val |-> 0,
                currentTreeRunID |-> 1, winnerNode |-> SENTINEL,
                pullCaller |-> "fill"]

\* no InputBuffer has been constructed
NoInputBuffer == InputBuffer(RunMetadata, 0)

\* generateRuns has not been called: nothing emitted, written, allocated
NoHistory == [emitted |-> << >>, writes |-> << >>, calls |-> << >>,
              runsEmitted |-> << >>, pulls |-> << >>]

\* the thread has not been started
WorkerIdle == [pc |-> "unstarted", count |-> 0]

ActiveIn(g) == IF g.activeIn = "A" THEN g.inBufA ELSE g.inBufB

StandbyIn(g) == IF g.activeIn = "A" THEN g.inBufB ELSE g.inBufA

ActiveOut(g) == IF g.activeOut = "A" THEN g.outBufA ELSE g.outBufB

StandbyOut(g) == IF g.activeOut = "A" THEN g.outBufB ELSE g.outBufA

SetStandbyIn(g, v) ==
    IF g.activeIn = "A" THEN [g EXCEPT !.inBufB = v] ELSE [g EXCEPT !.inBufA = v]

SetActiveOut(g, v) ==
    IF g.activeOut = "A" THEN [g EXCEPT !.outBufA = v] ELSE [g EXCEPT !.outBufB = v]

\* a notification that releases nobody
NotifyNobody(g, cv) == g

\* a condition variable is the set of threads blocked in its wait();
\* notify_one and notify_all release them (no variable has two waiters)
Notify(g, cv) == [g EXCEPT ![cv] = {}]

\* wait(lock): the thread t joins the waiters of cv
Wait(g, cv, t) == [g EXCEPT ![cv] = @ \cup {t}]

\* the swap without activeInIdx = 0
SwapInputKeepIndex(g) ==
    Notify([g EXCEPT !.activeIn = IF @ = "A" THEN "B" ELSE "A",
                     !.standby_input_ready = FALSE],
           "cv_input")

\* std::swap(activeIn, standbyIn); activeInIdx = 0; standby_input_ready = false
SwapInput(g) ==
    Notify([g EXCEPT !.activeIn = IF @ = "A" THEN "B" ELSE "A",
                     !.activeInIdx = 0, !.standby_input_ready = FALSE],
           "cv_input")

\* std::swap(activeOut, standbyOut); standby_output_busy = true;
\* cv_output.notify_one()
SwapOutput(g) ==
    Notify([g EXCEPT !.activeOut = IF @ = "A" THEN "B" ELSE "A",
                     !.standby_output_busy = TRUE],
           "cv_output")

\* clear() applied before the swap
ClearAndSwapOutput(g) == SwapOutput(SetActiveOut(g, << >>))

\* ... followed by activeOut->clear()
SwapOutputAndClear(g) == SetActiveOut(SwapOutput(g), << >>)

\* the predicates of the three condition-variable waits
InputMayRun(g) == ~g.standby_input_ready \/ g.stop_threads

\* the output worker does not wait for a block to be handed over
OutputMayRunAlways(g) == TRUE

OutputMayRun(g) == g.standby_output_busy \/ g.stop_threads

InputArrived(g) == g.standby_input_ready \/ g.input_eof \/ g.stop_threads

\* the compute thread does not wait for the output worker
OutputDrainedAnyway(g) == TRUE

OutputDrained(g) == ~g.standby_output_busy \/ g.stop_threads

\* the predicate the compute thread waits for at the wait it is blocked in
ComputeMayRun(g, pc) ==
    IF pc = "pull_wait" THEN InputArrived(g) ELSE OutputDrained(g)

\* a frozen element is tagged two runs ahead
NewRunIDSkipsARun(val, winnerValue, currentTreeRunID) ==
    IF val < winnerValue THEN currentTreeRunID + 2 ELSE currentTreeRunID

\* no element is ever frozen for the next run
NewRunIDAlwaysCurrent(val, winnerValue, currentTreeRunID) == currentTreeRunID

\* an element equal to the winner is frozen for the next run as well
NewRunIDFreezeEqual(val, winnerValue, currentTreeRunID) ==
    IF val <= winnerValue THEN currentTreeRunID + 1 ELSE currentTreeRunID

\* int newRunID = (val < winnerNode.value) ? currentTreeRunID + 1 : currentTreeRunID
NewRunID(val, winnerValue, currentTreeRunID) ==
    IF val < winnerValue THEN currentTreeRunID + 1 ELSE currentTreeRunID

\* if (totalElementsInRun > 0) { updateRunMetadata(...); generatedRuns.push_back(...) }
\* : [threw, directory, disk, generatedRuns]
RecordRun(hdr, dir, d, open, fail, g) ==
    IF g.totalElementsInRun <= 0
    THEN [threw |-> FALSE, directory |-> dir, disk |-> d,
          generatedRuns |-> g.generatedRuns]
    ELSE IF InvalidRunId(hdr, g.currentRunId)
    THEN [threw |-> TRUE, directory |-> dir, disk |-> d,
          generatedRuns |-> g.generatedRuns]
    ELSE LET dir1 == UpdateDirectory(dir, g.currentRunId, g.currentRunStartOffset,
                                     g.totalElementsInRun)
         IN  [threw |-> FALSE, directory |-> dir1,
              disk |-> WriteMetadataToDisk(d, open, fail, hdr, dir1, g.currentRunId),
              generatedRuns |-> Append(g.generatedRuns, dir1[g.currentRunId])]

\* an offset that ignores the elements already written for the run
OutputSeekAtRunStart(g) == g.currentRunStartOffset

\* outputWorker: the offset it seeks to before writing the standby block
OutputSeek(g) == g.currentRunStartOffset + g.totalElementsInRun * SizeofT

\* the history after the run was recorded (r is what RecordRun yields): the
\* updateRunMetadata call, and the winners emitted for the recorded run
RecordHistory(h, g, r) ==
    IF g.totalElementsInRun <= 0 THEN h
    ELSE [h EXCEPT
            !.calls = Append(@, [op |-> "updateRunMetadata",
                                 runId |-> g.currentRunId, threw |-> r.threw]),
            !.runsEmitted = IF r.threw THEN @ ELSE Append(@, h.emitted)]

\* the history after an allocateNewRun call that returned runId: a new run
\* begins, nothing emitted or written for it yet
AllocHistory(h, runId) ==
    [h EXCEPT !.calls = Append(@, [op |-> "allocateNewRun", runId |-> runId,
                                   threw |-> FALSE]),
              !.emitted = << >>, !.writes = << >>]

\* ------------------------------------------------------------------------
\* RunFile.h : the calls of the public interface, made by a client.
\* rfCall records the last call, its runId argument and what it returned.
\* ------------------------------------------------------------------------
Call(op, runId, ret) == [op |-> op, runId |-> runId, ret |-> ret]

\* bool create(int maxRuns).  file.open fails on a stream that is already
\* open (failbit; the writes that follow do nothing); the stream is closed
\* at the end either way.
Create(maxRuns) ==
    /\ header' = RunFileHeader(maxRuns)
    /\ directory' = EmptyDirectory(maxRuns)
    /\ IF file_is_open
       THEN /\ failbit' = TRUE
            /\ disk' = disk
       ELSE /\ failbit' = FALSE
            /\ disk' = [exists |-> TRUE, truncated |-> FALSE,
                        header |-> RunFileHeader(maxRuns),
                        dir |-> EmptyDirectory(maxRuns), data |-> << >>]
    /\ file_is_open' = FALSE
    /\ rfCall' = Call("create", 0, TRUE)

\* directory.resize(n)
ResizeDirectory(dir, n) ==
    [i \in 0 .. n - 1 |-> IF i \in DOMAIN dir THEN dir[i] ELSE RunMetadata]

\* bool open().  The header and the directory are read from the file; a
\* read on a failed stream leaves its destination as it was.
Open ==
    /\ IF file_is_open
       THEN \* file.open fails: failbit, nothing is read, the magic held in
            \* memory is compared
            /\ failbit' = TRUE
            /\ UNCHANGED <<file_is_open, header, directory>>
            /\ rfCall' = Call("open", 0, TRUE)
       ELSE IF ~disk.exists
       THEN /\ failbit' = TRUE
            /\ UNCHANGED <<file_is_open, header, directory>>
            /\ rfCall' = Call("open", 0, FALSE)
       ELSE IF disk.truncated
       THEN \* the read of the header fails and leaves header as it was
            /\ failbit' = TRUE
            /\ file_is_open' = (header.magic = "RUNS")
            /\ directory' = IF header.magic = "RUNS"
                            THEN ResizeDirectory(directory, header.maxRuns)
                            ELSE directory
            /\ UNCHANGED header
            /\ rfCall' = Call("open", 0, header.magic = "RUNS")
       ELSE IF disk.header.magic # "RUNS"
       THEN /\ failbit' = FALSE
            /\ file_is_open' = FALSE
            /\ header' = disk.header
            /\ UNCHANGED directory
            /\ rfCall' = Call("open", 0, FALSE)
       ELSE /\ failbit' = FALSE
            /\ file_is_open' = TRUE
            /\ header' = disk.header
            /\ directory' = disk.dir
            /\ rfCall' = Call("open", 0, TRUE)
    /\ UNCHANGED disk

\* void close()
Close ==
    /\ file_is_open' = FALSE
    /\ rfCall' = Call("close", 0, 0)
    /\ UNCHANGED <<failbit, header, directory, disk>>

\* int allocateNewRun()
AllocateNewRun ==
    /\ directory' = AllocDirectory(header, directory)
    /\ header' = AllocHeader(header, directory)
    /\ disk' = AllocDisk(disk, file_is_open, failbit, header, directory)
    /\ rfCall' = Call("allocateNewRun", 0, AllocSlot(header, directory))
    /\ UNCHANGED <<file_is_open, failbit>>

\* void updateRunMetadata(int runId, long long startOffset, long long elementCount)
UpdateRunMetadata(runId, startOffset, elementCount) ==
    /\ IF InvalidRunId(header, runId)
       THEN /\ rfCall' = Call("updateRunMetadata", runId, "out_of_range")
            /\ UNCHANGED <<directory, disk>>
       ELSE /\ directory' = UpdateDirectory(directory, runId, startOffset,
                                            elementCount)
            /\ disk' = WriteMetadataToDisk(disk, file_is_open, failbit, header,
                                           directory', runId)
            /\ rfCall' = Call("updateRunMetadata", runId, "ok")
    /\ UNCHANGED <<file_is_open, failbit, header>>

\* ------------------------------------------------------------------------
\* Specification SpecRunFile: a RunFile object driven through create, open,
\* close, allocateNewRun and updateRunMetadata in any order
\* ------------------------------------------------------------------------
\* RunFile(fname): header = RunFileHeader(0), empty directory, closed stream;
\* the file does not exist yet
InitRunFile ==
    /\ file_is_open = FALSE
    /\ failbit = FALSE
    /\ header = RunFileHeader(0)
    /\ directory = EmptyDirectory(0)
    /\ disk = NoFile
    /\ rfCall = Call("RunFile", 0, 0)
    /\ phase = "new"
    /\ outBuf = NoBuffer
    /\ loserTree = NewLoserTree(1)
    /\ ltState = "constructed"
    /\ initialRuns = << >>
    /\ mergeHeap = << >>
    /\ msPc = "idle"
    /\ mergeCost = 0
    /\ lastMerge = NoMerge
    /\ finalRun = RunMetadata
    /\ gen = RunGenerator(1, 1)
    /\ inputFile = NoInputFile
    /\ mtx = "none"
    /\ cw = ComputeIdle
    /\ iw = WorkerIdle
    /\ ow = WorkerIdle
    /\ inBuf = NoInputBuffer
    /\ trace = << >>
    /\ hist = NoHistory

RF_Create ==
    \E maxRuns \in 0 .. MaxDirSlots :
        Create(maxRuns) /\ UNCHANGED <<phase, outBuf, ltVars, mergeVars, genVars, obsVars>>

RF_Open == Open /\ UNCHANGED <<phase, outBuf, ltVars, mergeVars, genVars, obsVars>>

RF_Close == Close /\ UNCHANGED <<phase, outBuf, ltVars, mergeVars, genVars, obsVars>>

RF_AllocateNewRun == AllocateNewRun /\ UNCHANGED <<phase, outBuf, ltVars, mergeVars, genVars, obsVars>>

RF_UpdateRunMetadata ==
    \E runId \in -1 .. MaxDirSlots, cnt \in 1 .. MaxData :
        /\ UpdateRunMetadata(runId, DataStart(header.maxRuns), cnt)
        /\ UNCHANGED <<phase, outBuf, ltVars, mergeVars, genVars, obsVars>>

NextRunFile ==
    \/ RF_Create
    \/ RF_Open
    \/ RF_Close
    \/ RF_AllocateNewRun
    \/ RF_UpdateRunMetadata

SpecRunFile == InitRunFile /\ [][NextRunFile]_vars

\* ------------------------------------------------------------------------
\* Specification SpecOpen: a RunFile object whose path may hold a file that
\* RunFile::create did not write: an empty file, or one with another magic
\* ------------------------------------------------------------------------
ForeignFiles ==
    {[exists |-> TRUE, truncated |-> TRUE, header |-> RunFileHeader(0),
      dir |-> EmptyDirectory(0), data |-> << >>],
     [exists |-> TRUE, truncated |-> FALSE,
      header |-> [magic |-> "SNUR", maxRuns |-> 0, currentRunCount |-> 0],
      dir |-> EmptyDirectory(0), data |-> << >>]}

InitOpen ==
    /\ file_is_open = FALSE
    /\ failbit = FALSE
    /\ header = RunFileHeader(0)
    /\ directory = EmptyDirectory(0)
    /\ disk \in {NoFile} \cup ForeignFiles
    /\ rfCall = Call("RunFile", 0, 0)
    /\ phase = "new"
    /\ outBuf = NoBuffer
    /\ loserTree = NewLoserTree(1)
    /\ ltState = "constructed"
    /\ initialRuns = << >>
    /\ mergeHeap = << >>
    /\ msPc = "idle"
    /\ mergeCost = 0
    /\ lastMerge = NoMerge
    /\ finalRun = RunMetadata
    /\ gen = RunGenerator(1, 1)
    /\ inputFile = NoInputFile
    /\ mtx = "none"
    /\ cw = ComputeIdle
    /\ iw = WorkerIdle
    /\ ow = WorkerIdle
    /\ inBuf = NoInputBuffer
    /\ trace = << >>
    /\ hist = NoHistory

\* while the RunFile is closed, another program leaves a file at its path
EnvReplaceFile ==
    /\ ~file_is_open
    /\ disk' \in ForeignFiles
    /\ rfCall' = Call("none", 0, 0)
    /\ UNCHANGED <<file_is_open, failbit, header, directory, phase, outBuf,
                   ltVars, mergeVars, genVars, obsVars>>

NextOpen ==
    \/ RF_Create
    \/ RF_Open
    \/ RF_Close
    \/ RF_AllocateNewRun
    \/ EnvReplaceFile

SpecOpen == InitOpen /\ [][NextOpen]_vars

\* ------------------------------------------------------------------------
\* Specification SpecRoundTrip: the life cycle of a run file.  The client
\* creates the file, opens it, allocates runs, writes elements through an
\* OutputBuffer bound to the append offset and seals runs; it closes the
\* file and opens it again.  phase is the client's position.
\* ------------------------------------------------------------------------
RT_Create ==
    /\ phase = "new"
    /\ \E maxRuns \in 0 .. MaxDirSlots : Create(maxRuns)
    /\ phase' = "created"
    /\ UNCHANGED <<outBuf, ltVars, mergeVars, genVars, obsVars>>

RT_Open ==
    /\ phase \in {"created", "closed"}
    /\ Open
    /\ phase' = "open"
    /\ UNCHANGED <<outBuf, ltVars, mergeVars, genVars, obsVars>>

RT_Close ==
    /\ phase = "open"
    /\ outBuf = NoBuffer
    /\ Close
    /\ phase' = "closed"
    /\ UNCHANGED <<outBuf, ltVars, mergeVars, genVars, obsVars>>

RT_AllocateNewRun ==
    /\ phase = "open"
    /\ AllocateNewRun
    /\ UNCHANGED <<phase, outBuf, ltVars, mergeVars, genVars, obsVars>>

\* OutputBuffer<T> outBuf(runFile.getStream(), runFile.getAppendOffset(), cap),
\* as Merger::MergeInMem and project1's RunGenerator construct it
RT_NewOutputBuffer ==
    /\ phase = "open"
    /\ outBuf = NoBuffer
    /\ Len(disk.data) < MaxData
    /\ \E cap \in 1 .. MaxBlock :
           outBuf' = OutputBuffer(GetAppendOffset(disk, file_is_open, failbit), cap)
    /\ rfCall' = Call("getAppendOffset", 0,
                      GetAppendOffset(disk, file_is_open, failbit))
    /\ UNCHANGED <<rfVars, phase, ltVars, mergeVars, genVars, obsVars>>

\* outBuf.setNextItem(item)
RT_SetNextItem ==
    /\ phase = "open"
    /\ outBuf # NoBuffer
    /\ Len(disk.data) + currentBufferIndex(outBuf) < MaxData
    /\ \E item \in RFValues :
           /\ outBuf' = SetNextItemBuf(outBuf, file_is_open, item)
           /\ disk' = SetNextItemDisk(outBuf, disk, file_is_open, failbit, item)
    /\ rfCall' = Call("setNextItem", 0, 0)
    /\ UNCHANGED <<file_is_open, failbit, header, directory, phase, ltVars, mergeVars, genVars, obsVars>>

\* outBuf.flush(); runFile.updateRunMetadata(runId, startOffset,
\* outBuf.getElementCount()); the buffer goes out of scope
RT_SealRun ==
    /\ phase = "open"
    /\ outBuf # NoBuffer
    /\ \E runId \in -1 .. MaxDirSlots :
           LET d1 == FlushDisk(outBuf, disk, file_is_open, failbit)
               ob1 == FlushBuf(outBuf, file_is_open)
           IN  IF InvalidRunId(header, runId)
               THEN /\ rfCall' = Call("updateRunMetadata", runId, "out_of_range")
                    /\ disk' = d1
                    /\ UNCHANGED directory
               ELSE /\ directory' = UpdateDirectory(directory, runId,
                                        outBuf.runStartOffset, GetElementCount(ob1))
                    /\ disk' = WriteMetadataToDisk(d1, file_is_open, failbit,
                                                   header, directory', runId)
                    /\ rfCall' = Call("updateRunMetadata", runId, "ok")
    /\ outBuf' = NoBuffer
    /\ UNCHANGED <<file_is_open, failbit, header, phase, ltVars, mergeVars, genVars, obsVars>>

NextRoundTrip ==
    \/ RT_Create
    \/ RT_Open
    \/ RT_Close
    \/ RT_AllocateNewRun
    \/ RT_NewOutputBuffer
    \/ RT_SetNextItem
    \/ RT_SealRun

SpecRoundTrip == InitRunFile /\ [][NextRoundTrip]_vars

\* ------------------------------------------------------------------------
\* Specification SpecLoserTree: a LoserTree(k) driven through initialize,
\* replaceWinner and setWinnerToSentinel
\* ------------------------------------------------------------------------
InitLoserTree ==
    /\ file_is_open = FALSE
    /\ failbit = FALSE
    /\ header = RunFileHeader(0)
    /\ directory = EmptyDirectory(0)
    /\ disk = NoFile
    /\ rfCall = Call("RunFile", 0, 0)
    /\ phase = "new"
    /\ outBuf = NoBuffer
    /\ \E k \in 1 .. MaxTreeK : loserTree = NewLoserTree(k)
    /\ ltState = "constructed"
    /\ initialRuns = << >>
    /\ mergeHeap = << >>
    /\ msPc = "idle"
    /\ mergeCost = 0
    /\ lastMerge = NoMerge
    /\ finalRun = RunMetadata
    /\ gen = RunGenerator(1, 1)
    /\ inputFile = NoInputFile
    /\ mtx = "none"
    /\ cw = ComputeIdle
    /\ iw = WorkerIdle
    /\ ow = WorkerIdle
    /\ inBuf = NoInputBuffer
    /\ trace = << >>
    /\ hist = NoHistory

LT_Initialize ==
    /\ \E initialData \in SeqsUpTo(LTValues, loserTree.k) :
           loserTree' = initialize(loserTree, initialData)
    /\ ltState' = "initialized"
    /\ UNCHANGED <<rfVars, clientVars, mergeVars, genVars, obsVars>>

LT_ReplaceWinner ==
    /\ \E newValue \in LTValues, newRunID \in LTRunIDs :
           loserTree' = replaceWinner(loserTree, newValue, newRunID)
    /\ UNCHANGED <<ltState, rfVars, clientVars, mergeVars, genVars, obsVars>>

LT_SetWinnerToSentinel ==
    /\ loserTree' = setWinnerToSentinel(loserTree)
    /\ UNCHANGED <<ltState, rfVars, clientVars, mergeVars, genVars, obsVars>>

NextLoserTree ==
    \/ LT_Initialize
    \/ LT_ReplaceWinner
    \/ LT_SetWinnerToSentinel

SpecLoserTree == InitLoserTree /\ [][NextLoserTree]_vars

\* ------------------------------------------------------------------------
\* Specification SpecMerge: externalMergeSort(initialRuns, runFile) of
\* project2 on an open run file that holds the runs of initialRuns
\* ------------------------------------------------------------------------
\* one run appended to the open file: allocateNewRun, getAppendOffset, the
\* elements through an OutputBuffer, flush, updateRunMetadata
StoreRun(rf, data) ==
    LET runId == AllocSlot(rf.header, rf.directory)
        hdr1 == AllocHeader(rf.header, rf.directory)
        dir1 == AllocDirectory(rf.header, rf.directory)
        d1 == AllocDisk(rf.disk, TRUE, FALSE, rf.header, rf.directory)
        startOffset == GetAppendOffset(d1, TRUE, FALSE)
        d2 == StreamWrite(d1, TRUE, FALSE, startOffset, data)
        dir2 == UpdateDirectory(dir1, runId, startOffset, Len(data))
    IN  [header |-> hdr1, directory |-> dir2,
         disk |-> WriteMetadataToDisk(d2, TRUE, FALSE, hdr1, dir2, runId),
         runs |-> Append(rf.runs, dir2[runId])]

RECURSIVE StoreRuns(_, _, _)
StoreRuns(rf, contents, i) ==
    IF i > Len(contents) THEN rf
    ELSE StoreRuns(StoreRun(rf, contents[i]), contents, i + 1)

\* the run file after create(maxRuns), open() and the runs of contents
StoredRuns(maxRuns, contents) ==
    StoreRuns([header |-> RunFileHeader(maxRuns),
               directory |-> EmptyDirectory(maxRuns),
               disk |-> [exists |-> TRUE, truncated |-> FALSE,
                        header |-> RunFileHeader(maxRuns),
                         dir |-> EmptyDirectory(maxRuns), data |-> << >>],
               runs |-> << >>], contents, 1)

\* the non-decreasing sequences over S of length 0 .. n: the contents of the
\* runs that generateRuns leaves in the file
SortedSeqsUpTo(S, n) ==
    {q \in SeqsUpTo(S, n) : \A i \in 1 .. Len(q) - 1 : q[i] <= q[i + 1]}

\* what a read of mergeHeap.top() on an empty heap may yield
GarbageRuns == {RunMetadata,
                [startOffset |-> -1, elementCount |-> -1, isUsed |-> TRUE]}

InitMerge ==
    \E n \in 0 .. MaxMergeRuns :
      \E contents \in [1 .. n -> SortedSeqsUpTo(MergeValues, MaxRunLen)] :
        \E maxRuns \in n .. (IF n = 0 THEN 0 ELSE 2 * n - 1) :
          LET rf == StoredRuns(maxRuns, contents)
          IN  /\ file_is_open = TRUE
              /\ failbit = FALSE
              /\ header = rf.header
              /\ directory = rf.directory
              /\ disk = rf.disk
              /\ rfCall = Call("updateRunMetadata", n - 1, "ok")
              /\ phase = "open"
              /\ outBuf = NoBuffer
              /\ loserTree = NewLoserTree(1)
              /\ ltState = "constructed"
              /\ initialRuns = rf.runs
              /\ mergeHeap = << >>
              /\ msPc = "idle"
              /\ mergeCost = 0
              /\ lastMerge = NoMerge
              /\ finalRun = RunMetadata
              /\ gen = RunGenerator(1, 1)
              /\ inputFile = NoInputFile
              /\ mtx = "none"
              /\ cw = ComputeIdle
              /\ iw = WorkerIdle
              /\ ow = WorkerIdle
          /\ inBuf = NoInputBuffer
          /\ trace = << >>
          /\ hist = NoHistory
              /\ inBuf = NoInputBuffer
              /\ trace = << >>
              /\ hist = NoHistory
    /\ inBuf = NoInputBuffer
    /\ trace = << >>
    /\ hist = NoHistory

\* for (run : initialRuns) mergeHeap.push(run)
MS_Start ==
    /\ msPc = "idle"
    /\ mergeHeap' = initialRuns
    /\ msPc' = "loop"
    /\ UNCHANGED <<rfVars, clientVars, ltVars, genVars, obsVars, initialRuns, mergeCost,
                   lastMerge, finalRun>>

\* one iteration of while (mergeHeap.size() > 1)
MS_Merge ==
    /\ msPc = "loop"
    /\ Len(mergeHeap) > 1
    /\ \E i \in HeapTops(mergeHeap) :
         \E j \in HeapTops(HeapPop(mergeHeap, i)) :
           LET runA == mergeHeap[i]
               rest == HeapPop(mergeHeap, i)
               runB == rest[j]
           IN  \E m \in {MergeInMem(header, directory, disk, file_is_open,
                                    failbit, runA, runB, MergeInputBlock,
                                    MergeOutputBlock)} :
               /\ header' = m.header
               /\ directory' = m.directory
               /\ disk' = m.disk
               /\ lastMerge' = [called |-> TRUE, runA |-> runA, runB |-> runB,
                                threw |-> m.threw, mergedRun |-> m.run,
                                writes |-> m.writes, order |-> m.order,
                                count |-> lastMerge.count + 1]
               /\ mergeCost' = mergeCost + runA.elementCount + runB.elementCount
               /\ mergeHeap' = IF m.threw THEN HeapPop(rest, j)
                               ELSE Append(HeapPop(rest, j), m.run)
               /\ msPc' = IF m.threw THEN "threw" ELSE "loop"
    /\ UNCHANGED <<file_is_open, failbit, clientVars, ltVars, genVars, obsVars,
                   initialRuns, finalRun>>

\* return mergeHeap.top() with one run left
MS_Return ==
    /\ msPc = "loop"
    /\ Len(mergeHeap) = 1
    /\ finalRun' = mergeHeap[1]
    /\ msPc' = "done"
    /\ UNCHANGED <<rfVars, clientVars, ltVars, genVars, obsVars, initialRuns,
                   mergeHeap, mergeCost, lastMerge>>

\* return mergeHeap.top() on an empty heap: undefined behaviour
MS_ReturnEmpty ==
    /\ msPc = "loop"
    /\ Len(mergeHeap) = 0
    /\ \E outcome \in {"done", "crashed"}, garbage \in GarbageRuns :
         /\ msPc' = outcome
         /\ finalRun' = IF outcome = "done" THEN garbage ELSE finalRun
    /\ UNCHANGED <<rfVars, clientVars, ltVars, genVars, obsVars, initialRuns,
                   mergeHeap, mergeCost, lastMerge>>

NextMerge ==
    \/ MS_Start
    \/ MS_Merge
    \/ MS_Return
    \/ MS_ReturnEmpty

SpecMerge == InitMerge /\ [][NextMerge]_vars

\* ------------------------------------------------------------------------
\* Specification SpecInputBuffer: an InputBuffer bound to one of two runs
\* stored in an open run file, read with getNextItem until after its end
\* ------------------------------------------------------------------------
InitInputBuffer ==
    \E contents \in [1 .. 2 -> SeqsUpTo(RFValues, MaxBufRunLen)] :
      \E r \in 1 .. 2, bufferSizeInElements \in 1 .. MaxBlock :
        LET rf == StoredRuns(2, contents)
        IN  /\ file_is_open = TRUE
            /\ failbit = FALSE
            /\ header = rf.header
            /\ directory = rf.directory
            /\ disk = rf.disk
            /\ rfCall = Call("updateRunMetadata", 1, "ok")
            /\ phase = "open"
            /\ outBuf = NoBuffer
            /\ loserTree = NewLoserTree(1)
            /\ ltState = "constructed"
            /\ initialRuns = rf.runs
            /\ mergeHeap = << >>
            /\ msPc = "idle"
            /\ mergeCost = 0
            /\ lastMerge = NoMerge
            /\ finalRun = RunMetadata
            /\ gen = RunGenerator(1, 1)
            /\ inputFile = NoInputFile
            /\ mtx = "none"
            /\ cw = ComputeIdle
            /\ iw = WorkerIdle
            /\ ow = WorkerIdle
            /\ inBuf = InputBuffer(rf.runs[r], bufferSizeInElements)
            /\ trace = << >>
            /\ hist = NoHistory

\* bool getNextItem(T& item); the call and what it returned go into trace
IB_GetNextItem ==
    /\ Len(trace) < inBuf.runMeta.elementCount + MaxExtraCalls
    /\ LET r == GetNextItem(inBuf, disk)
       IN  /\ inBuf' = r.ib
           /\ trace' = Append(trace, [op |-> "getNextItem", ok |-> r.ok,
                                      item |-> r.item])
    /\ UNCHANGED <<rfVars, clientVars, ltVars, mergeVars, genVars, hist>>

NextInputBuffer == IB_GetNextItem

SpecInputBuffer == InitInputBuffer /\ [][NextInputBuffer]_vars

\* ------------------------------------------------------------------------
\* Specification SpecOutputBuffer: an OutputBuffer bound to the end of an
\* open run file, driven through setNextItem and flush in any order
\* ------------------------------------------------------------------------
InitOutputBuffer ==
    \E contents \in [1 .. 1 -> SeqsUpTo(RFValues, 1)] :
      \E bufferSizeInElements \in 1 .. MaxBlock :
        LET rf == StoredRuns(2, contents)
        IN  /\ file_is_open = TRUE
            /\ failbit = FALSE
            /\ header = rf.header
            /\ directory = rf.directory
            /\ disk = rf.disk
            /\ rfCall = Call("getAppendOffset", 0, GetAppendOffset(rf.disk, TRUE, FALSE))
            /\ phase = "open"
            /\ outBuf = OutputBuffer(GetAppendOffset(rf.disk, TRUE, FALSE),
                                     bufferSizeInElements)
            /\ loserTree = NewLoserTree(1)
            /\ ltState = "constructed"
            /\ initialRuns = rf.runs
            /\ mergeHeap = << >>
            /\ msPc = "idle"
            /\ mergeCost = 0
            /\ lastMerge = NoMerge
            /\ finalRun = RunMetadata
            /\ gen = RunGenerator(1, 1)
            /\ inputFile = NoInputFile
            /\ mtx = "none"
            /\ cw = ComputeIdle
            /\ iw = WorkerIdle
            /\ ow = WorkerIdle
            /\ inBuf = NoInputBuffer
            /\ trace = << >>
            /\ hist = NoHistory

\* the setNextItem calls of a trace
SetCalls(t) == {c \in 1 .. Len(t) : t[c].op = "setNextItem"}

\* void setNextItem(const T& item)
OB_SetNextItem ==
    /\ Cardinality(SetCalls(trace)) < MaxBufRunLen
    /\ \E item \in RFValues :
         /\ disk' = SetNextItemDisk(outBuf, disk, file_is_open, failbit, item)
         /\ outBuf' = SetNextItemBuf(outBuf, file_is_open, item)
         /\ trace' = Append(trace,
                            [op |-> "setNextItem", item |-> item,
                             write |-> SetNextItemCall(outBuf, file_is_open, item)])
    /\ UNCHANGED <<file_is_open, failbit, header, directory, rfCall, phase,
                   ltVars, mergeVars, genVars, inBuf, hist>>

\* void flush()
OB_Flush ==
    /\ Len(trace) - Cardinality(SetCalls(trace)) < MaxExtraCalls
    /\ disk' = FlushDisk(outBuf, disk, file_is_open, failbit)
    /\ outBuf' = FlushBuf(outBuf, file_is_open)
    /\ trace' = Append(trace, [op |-> "flush", item |-> 0,
                               write |-> FlushCall(outBuf, file_is_open)])
    /\ UNCHANGED <<file_is_open, failbit, header, directory, rfCall, phase,
                   ltVars, mergeVars, genVars, inBuf, hist>>

NextOutputBuffer ==
    \/ OB_SetNextItem
    \/ OB_Flush

SpecOutputBuffer == InitOutputBuffer /\ [][NextOutputBuffer]_vars

\* ------------------------------------------------------------------------
\* Specification SpecSort: main() of project2.  A run file is created and
\* opened, generateRuns runs replacement selection over the input file with
\* its three threads, externalMergeSort merges the runs it returned.
\* ------------------------------------------------------------------------
\* the directory sizes handed to create()
SortDirSlots == {0, 1, MaxInputLen, 2 * MaxInputLen}

InitSort ==
    \E data \in SeqsUpTo(GenValues, MaxInputLen) :
      \E memSize \in 1 .. MaxK, bufferSize \in 1 .. MaxBufSize :
        \E maxRuns \in SortDirSlots :
          /\ file_is_open = TRUE
          /\ failbit = FALSE
          /\ header = RunFileHeader(maxRuns)
          /\ directory = EmptyDirectory(maxRuns)
          /\ disk = [exists |-> TRUE, truncated |-> FALSE,
                        header |-> RunFileHeader(maxRuns),
                     dir |-> EmptyDirectory(maxRuns), data |-> << >>]
          /\ rfCall = Call("open", 0, TRUE)
          /\ phase = "open"
          /\ outBuf = NoBuffer
          /\ loserTree = NewLoserTree(memSize)
          /\ ltState = "constructed"
          /\ initialRuns = << >>
          /\ mergeHeap = << >>
          /\ msPc = "idle"
          /\ mergeCost = 0
          /\ lastMerge = NoMerge
          /\ finalRun = RunMetadata
          /\ gen = RunGenerator(memSize, bufferSize)
          /\ inputFile = [data |-> data, pos |-> 0, eof |-> FALSE,
                          is_open |-> FALSE]
          /\ mtx = "none"
          /\ cw = ComputeIdle
          /\ iw = WorkerIdle
          /\ ow = WorkerIdle
          /\ inBuf = NoInputBuffer
          /\ trace = << >>
          /\ hist = NoHistory
    /\ inBuf = NoInputBuffer
    /\ trace = << >>
    /\ hist = NoHistory

\* generateRuns up to the call of computeWorker: the input file is opened,
\* the first run is allocated, the two worker threads are started
GenerateRuns ==
    /\ cw.pc = "idle"
    /\ inputFile' = [inputFile EXCEPT !.is_open = TRUE]
    /\ header' = AllocHeader(header, directory)
    /\ directory' = AllocDirectory(header, directory)
    /\ disk' = AllocDisk(disk, file_is_open, failbit, header, directory)
    /\ gen' = [gen EXCEPT
                 !.currentRunId = AllocSlot(header, directory),
                 !.currentRunStartOffset =
                     GetAppendOffset(disk', file_is_open, failbit),
                 !.totalElementsInRun = 0,
                 !.generatedRuns = << >>]
    /\ hist' = AllocHistory(hist, AllocSlot(header, directory))
    /\ iw' = [iw EXCEPT !.pc = "start"]
    /\ ow' = [ow EXCEPT !.pc = "start"]
    /\ cw' = [cw EXCEPT !.pc = "lock"]
    /\ UNCHANGED <<file_is_open, failbit, clientVars, inBuf, trace, ltVars, mergeVars, mtx>>

\* ---- inputWorker ----
\* the head of while (!stop_threads) with the mutex held, up to the point
\* where the thread lets go of the mutex: [g, pc]
InputLoopTop(g) ==
    IF g.stop_threads THEN [g |-> g, pc |-> "exited"]
    ELSE IF InputMayRun(g)
    THEN [g |-> SetStandbyIn(g, Resize(StandbyIn(g), g.bufSize)), pc |-> "reading"]
    ELSE [g |-> g, pc |-> "to_wait"]

\* the thread starts: it takes the mutex and enters the loop
IW_Start ==
    /\ iw.pc = "start"
    /\ mtx = "none"
    /\ gen' = InputLoopTop(gen).g
    /\ iw' = [iw EXCEPT !.pc = InputLoopTop(gen).pc]
    /\ mtx' = IF iw'.pc = "to_wait" THEN "input" ELSE "none"
    /\ UNCHANGED <<rfVars, clientVars, obsVars, ltVars, mergeVars, inputFile, cw, ow>>

\* cv_input.wait returns: the predicate holds and the mutex is free
IW_Wake ==
    /\ iw.pc = "blocked"
    /\ mtx = "none"
    /\ "input" \notin gen.cv_input
    /\ gen' = InputLoopTop(gen).g
    /\ iw' = [iw EXCEPT !.pc = InputLoopTop(gen).pc]
    /\ mtx' = IF iw'.pc = "to_wait" THEN "input" ELSE "none"
    /\ UNCHANGED <<rfVars, clientVars, obsVars, ltVars, mergeVars, inputFile, cw, ow>>

\* the predicate of cv_input.wait was false: the mutex is released and the
\* thread blocks
IW_Block ==
    /\ iw.pc = "to_wait"
    /\ gen' = Wait(gen, "cv_input", "input")
    /\ mtx' = "none"
    /\ iw' = [iw EXCEPT !.pc = "blocked"]
    /\ UNCHANGED <<rfVars, clientVars, obsVars, ltVars, mergeVars, inputFile, cw, ow>>

\* inputFile.read into standbyIn, without the mutex; a read that gets fewer
\* elements than asked for sets eofbit and failbit, later reads get nothing
IW_Read ==
    /\ iw.pc = "reading"
    /\ LET avail == IF inputFile.eof \/ ~inputFile.is_open THEN 0
                    ELSE Len(inputFile.data) - inputFile.pos
           asked == Len(StandbyIn(gen))
           count == Min2(asked, avail)
       IN  /\ gen' = SetStandbyIn(gen,
                        SubSeq(inputFile.data, inputFile.pos + 1,
                               inputFile.pos + count)
                        \o SubSeq(StandbyIn(gen), count + 1, asked))
           /\ inputFile' = [inputFile EXCEPT !.pos = @ + count,
                                             !.eof = @ \/ count < asked]
           /\ iw' = [pc |-> "relock", count |-> count]
    /\ UNCHANGED <<rfVars, clientVars, obsVars, ltVars, mergeVars, mtx, cw, ow>>

\* lock.lock(); standbyIn->resize(count); input_eof; standby_input_ready;
\* then the head of the loop again
IW_Publish ==
    /\ iw.pc = "relock"
    /\ mtx = "none"
    /\ LET g1 == Notify([SetStandbyIn(gen, Resize(StandbyIn(gen), iw.count)) EXCEPT
                    !.input_eof = @ \/ inputFile.eof \/ iw.count = 0,
                    !.standby_input_ready = TRUE], "cv_compute")
       IN  /\ gen' = InputLoopTop(g1).g
           /\ iw' = [iw EXCEPT !.pc = InputLoopTop(g1).pc]
    /\ mtx' = IF iw'.pc = "to_wait" THEN "input" ELSE "none"
    /\ UNCHANGED <<rfVars, clientVars, obsVars, ltVars, mergeVars, inputFile, cw, ow>>

\* ---- outputWorker ----
\* the head of while (!stop_threads) with the mutex held: [pc, count]
OutputLoopTop(g, count) ==
    IF g.stop_threads THEN [pc |-> "exited", count |-> count]
    ELSE IF OutputMayRun(g)
    THEN [pc |-> "writing", count |-> Len(StandbyOut(g))]
    ELSE [pc |-> "to_wait", count |-> count]

OW_Start ==
    /\ ow.pc = "start"
    /\ mtx = "none"
    /\ ow' = OutputLoopTop(gen, ow.count)
    /\ UNCHANGED <<rfVars, clientVars, obsVars, ltVars, mergeVars, gen, inputFile, cw, iw>>
    /\ mtx' = IF ow'.pc = "to_wait" THEN "output" ELSE "none"

\* cv_output.wait returns
OW_Wake ==
    /\ ow.pc = "blocked"
    /\ mtx = "none"
    /\ "output" \notin gen.cv_output
    /\ ow' = OutputLoopTop(gen, ow.count)
    /\ UNCHANGED <<rfVars, clientVars, obsVars, ltVars, mergeVars, gen, inputFile, cw, iw>>
    /\ mtx' = IF ow'.pc = "to_wait" THEN "output" ELSE "none"

\* the predicate of cv_output.wait was false: the thread blocks
OW_Block ==
    /\ ow.pc = "to_wait"
    /\ gen' = Wait(gen, "cv_output", "output")
    /\ mtx' = "none"
    /\ ow' = [ow EXCEPT !.pc = "blocked"]
    /\ UNCHANGED <<rfVars, clientVars, obsVars, ltVars, mergeVars, inputFile, cw, iw>>

\* seekp(currentRunStartOffset + totalElementsInRun * sizeof(T)); write of
\* count elements of standbyOut, without the mutex
OW_Write ==
    /\ ow.pc = "writing"
    /\ LET off == OutputSeek(gen)
           block == SubSeq(StandbyOut(gen), 1, ow.count)
       IN  IF ow.count > 0
           THEN /\ disk' = StreamWrite(disk, file_is_open, failbit, off, block)
                /\ hist' = [hist EXCEPT
                              !.writes = Append(@, [off |-> off, block |-> block])]
           ELSE UNCHANGED <<disk, hist>>
    /\ ow' = [ow EXCEPT !.pc = "relock"]
    /\ UNCHANGED <<file_is_open, failbit, header, directory, clientVars, inBuf,
                   trace, ltVars, mergeVars, gen, inputFile, mtx, cw, iw>>

\* lock.lock(); totalElementsInRun += count; standby_output_busy = false;
\* then the head of the loop again
OW_Publish ==
    /\ ow.pc = "relock"
    /\ mtx = "none"
    /\ LET g1 == Notify([gen EXCEPT
                    !.totalElementsInRun = IF ow.count > 0 THEN @ + ow.count ELSE @,
                    !.standby_output_busy = FALSE], "cv_compute")
       IN  /\ gen' = g1
           /\ ow' = OutputLoopTop(g1, ow.count)
    /\ UNCHANGED <<rfVars, clientVars, obsVars, ltVars, mergeVars, inputFile, cw, iw>>
    /\ mtx' = IF ow'.pc = "to_wait" THEN "output" ELSE "none"

\* ---- computeWorker, run by the thread that called generateRuns ----
\* std::unique_lock<std::mutex> lock(mtx)
CW_Lock ==
    /\ cw.pc = "lock"
    /\ mtx = "none"
    /\ mtx' = "compute"
    /\ cw' = [cw EXCEPT !.pc = "fill"]
    /\ UNCHANGED <<rfVars, clientVars, obsVars, ltVars, mergeVars, gen, inputFile, iw, ow>>

\* while (initialData.size() < K && pullNextInput(val, lock))
CW_Fill ==
    /\ cw.pc = "fill"
    /\ cw' = IF Len(cw.initialData) < gen.K
             THEN [cw EXCEPT !.pc = "pull", !.pullCaller = "fill"]
             ELSE [cw EXCEPT !.pc = "init"]
    /\ UNCHANGED <<rfVars, clientVars, obsVars, ltVars, mergeVars, gen, inputFile, mtx,
                   iw, ow>>

\* loserTree.initialize(initialData); int currentTreeRunID = 1
CW_Init ==
    /\ cw.pc = "init"
    /\ loserTree' = initialize(loserTree, cw.initialData)
    /\ ltState' = "initialized"
    /\ cw' = [cw EXCEPT !.currentTreeRunID = 1, !.pc = "loop"]
    /\ UNCHANGED <<rfVars, clientVars, obsVars, mergeVars, gen, inputFile, mtx, iw, ow>>

\* pullNextInput returns ok (and val) to the place it was called from: the
\* initial fill, or step E of the main loop; the return is noted in hist
PullReturn(ok, val) ==
    /\ hist' = [hist EXCEPT !.pulls = Append(@, [ok |-> ok, val |-> IF ok THEN val ELSE 0])]
    /\ IF cw.pullCaller = "fill"
       THEN /\ cw' = IF ok
                     THEN [cw EXCEPT !.val = val,
                                     !.initialData = Append(@, val), !.pc = "fill"]
                     ELSE [cw EXCEPT !.pc = "init"]
            /\ UNCHANGED loserTree
       ELSE /\ cw' = [cw EXCEPT !.val = IF ok THEN val ELSE @, !.pc = "loop"]
            /\ loserTree' =
                 IF ok
                 THEN replaceWinner(loserTree, val,
                                    NewRunID(val, cw.winnerNode.value,
                                             cw.currentTreeRunID))
                 ELSE setWinnerToSentinel(loserTree)

\* one iteration of the while (true) of pullNextInput
CW_Pull ==
    /\ cw.pc = "pull"
    /\ IF gen.activeInIdx < Len(ActiveIn(gen))
       THEN /\ gen' = [gen EXCEPT !.activeInIdx = @ + 1]
            /\ PullReturn(TRUE, ActiveIn(gen)[gen.activeInIdx + 1])
            /\ UNCHANGED mtx
       ELSE IF gen.standby_input_ready
       THEN /\ gen' = SwapInput(gen)
            /\ UNCHANGED <<cw, loserTree, mtx, hist>>
       ELSE IF gen.input_eof \/ gen.stop_threads
       THEN /\ PullReturn(FALSE, cw.val)
            /\ UNCHANGED <<gen, mtx>>
       ELSE /\ mtx' = "none"
            /\ gen' = Wait(gen, "cv_compute", "compute")
            /\ cw' = [cw EXCEPT !.pc = "pull_wait"]
            /\ UNCHANGED <<loserTree, hist>>
    /\ UNCHANGED <<rfVars, clientVars, inBuf, trace, ltState, mergeVars, inputFile, iw, ow>>

\* cv_compute.wait of pullNextInput returns
CW_PullWake ==
    /\ cw.pc = "pull_wait"
    /\ mtx = "none"
    /\ "compute" \notin gen.cv_compute
    /\ InputArrived(gen)
    /\ mtx' = "compute"
    /\ IF gen.stop_threads
       THEN PullReturn(FALSE, cw.val)
       ELSE cw' = [cw EXCEPT !.pc = "pull"] /\ UNCHANGED <<loserTree, hist>>
    /\ UNCHANGED <<rfVars, clientVars, inBuf, trace, ltState, mergeVars, gen, inputFile, iw, ow>>

\* a cv_compute.wait was woken while its predicate is false: the thread
\* blocks again
CW_Rewait ==
    /\ cw.pc \in {"pull_wait", "b_flush_wait", "b_drain_wait", "e_wait",
                  "f_wait1", "f_wait2"}
    /\ mtx = "none"
    /\ "compute" \notin gen.cv_compute
    /\ ~ComputeMayRun(gen, cw.pc)
    /\ gen' = Wait(gen, "cv_compute", "compute")
    /\ UNCHANGED <<rfVars, clientVars, obsVars, ltVars, mergeVars, inputFile, mtx, cw,
                   iw, ow>>

\* steps A, B and the test of step C of the main loop
CW_Loop ==
    /\ cw.pc = "loop"
    /\ LET winnerNode == getWinner(loserTree)
       IN  cw' = [cw EXCEPT
                    !.winnerNode = winnerNode,
                    !.pc = IF winnerNode.runID = INT_MAX THEN "finish"
                           ELSE IF winnerNode.runID > cw.currentTreeRunID
                           THEN "b_flush" ELSE "emit"]
    /\ UNCHANGED <<rfVars, clientVars, obsVars, ltVars, mergeVars, gen, inputFile, mtx,
                   iw, ow>>

\* step C.1: the active output block is handed to the output worker
CW_BoundaryFlush ==
    /\ cw.pc = "b_flush"
    /\ IF ActiveOut(gen) = << >>
       THEN cw' = [cw EXCEPT !.pc = "b_drain"] /\ UNCHANGED <<gen, mtx>>
       ELSE IF ~OutputDrained(gen)
       THEN /\ mtx' = "none"
            /\ cw' = [cw EXCEPT !.pc = "b_flush_wait"]
            /\ gen' = Wait(gen, "cv_compute", "compute")
       ELSE IF gen.stop_threads
       THEN cw' = [cw EXCEPT !.pc = "finish"] /\ UNCHANGED <<gen, mtx>>
       ELSE /\ gen' = SwapOutputAndClear(gen)
            /\ cw' = [cw EXCEPT !.pc = "b_drain"]
            /\ UNCHANGED mtx
    /\ UNCHANGED <<rfVars, clientVars, obsVars, ltVars, mergeVars, inputFile, iw, ow>>

CW_BoundaryFlushWake ==
    /\ cw.pc = "b_flush_wait"
    /\ mtx = "none"
    /\ "compute" \notin gen.cv_compute
    /\ OutputDrained(gen)
    /\ mtx' = "compute"
    /\ IF gen.stop_threads
       THEN cw' = [cw EXCEPT !.pc = "finish"] /\ UNCHANGED gen
       ELSE gen' = SwapOutputAndClear(gen) /\ cw' = [cw EXCEPT !.pc = "b_drain"]
    /\ UNCHANGED <<rfVars, clientVars, obsVars, ltVars, mergeVars, inputFile, iw, ow>>

\* step C.2: wait until the output worker has written the block
CW_BoundaryDrain ==
    /\ cw.pc = "b_drain"
    /\ IF ~OutputDrained(gen)
       THEN /\ mtx' = "none"
            /\ gen' = Wait(gen, "cv_compute", "compute")
            /\ cw' = [cw EXCEPT !.pc = "b_drain_wait"]
       ELSE /\ cw' = [cw EXCEPT !.pc = IF gen.stop_threads THEN "finish"
                                       ELSE "b_seal"]
            /\ UNCHANGED <<gen, mtx>>
    /\ UNCHANGED <<rfVars, clientVars, obsVars, ltVars, mergeVars, inputFile, iw, ow>>

CW_BoundaryDrainWake ==
    /\ cw.pc = "b_drain_wait"
    /\ mtx = "none"
    /\ "compute" \notin gen.cv_compute
    /\ OutputDrained(gen)
    /\ mtx' = "compute"
    /\ cw' = [cw EXCEPT !.pc = IF gen.stop_threads THEN "finish" ELSE "b_seal"]
    /\ UNCHANGED <<rfVars, clientVars, obsVars, ltVars, mergeVars, gen, inputFile, iw, ow>>

\* steps C.3, C.4, C.5: the run is recorded, the next run is allocated
CW_BoundarySeal ==
    /\ cw.pc = "b_seal"
    /\ LET r == RecordRun(header, directory, disk, file_is_open, failbit, gen)
       IN  IF r.threw
           THEN /\ cw' = [cw EXCEPT !.pc = "threw"]
                /\ mtx' = "none"
                /\ hist' = RecordHistory(hist, gen, r)
                /\ UNCHANGED <<header, directory, disk, gen>>
           ELSE /\ header' = AllocHeader(header, r.directory)
                /\ directory' = AllocDirectory(header, r.directory)
                /\ disk' = AllocDisk(r.disk, file_is_open, failbit, header,
                                     r.directory)
                /\ gen' = [gen EXCEPT
                             !.generatedRuns = r.generatedRuns,
                             !.currentRunId = AllocSlot(header, r.directory),
                             !.currentRunStartOffset =
                                 GetAppendOffset(disk', file_is_open, failbit),
                             !.totalElementsInRun = 0]
                /\ hist' = AllocHistory(RecordHistory(hist, gen, r),
                                        AllocSlot(header, r.directory))
                /\ cw' = [cw EXCEPT !.currentTreeRunID = cw.winnerNode.runID,
                                    !.pc = "emit"]
                /\ UNCHANGED mtx
    /\ UNCHANGED <<file_is_open, failbit, clientVars, inBuf, trace, ltVars, mergeVars,
                   inputFile, iw, ow>>

\* step D: the winner is appended to the active output block; a full block
\* is handed to the output worker
CW_Emit ==
    /\ cw.pc = "emit"
    /\ LET g1 == SetActiveOut(gen, Append(ActiveOut(gen), cw.winnerNode.value))
       IN  IF Len(ActiveOut(g1)) >= gen.bufSize
           THEN IF ~OutputDrained(gen)
                THEN /\ gen' = Wait(g1, "cv_compute", "compute")
                     /\ mtx' = "none"
                     /\ cw' = [cw EXCEPT !.pc = "e_wait"]
                ELSE IF gen.stop_threads
                THEN /\ gen' = g1
                     /\ cw' = [cw EXCEPT !.pc = "finish"]
                     /\ UNCHANGED mtx
                ELSE /\ gen' = SwapOutputAndClear(g1)
                     /\ cw' = [cw EXCEPT !.pc = "pull", !.pullCaller = "replace"]
                     /\ UNCHANGED mtx
           ELSE /\ gen' = g1
                /\ cw' = [cw EXCEPT !.pc = "pull", !.pullCaller = "replace"]
                /\ UNCHANGED mtx
    /\ hist' = [hist EXCEPT !.emitted = Append(@, cw.winnerNode.value)]
    /\ UNCHANGED <<rfVars, clientVars, inBuf, trace, ltVars, mergeVars, inputFile, iw, ow>>

CW_EmitWake ==
    /\ cw.pc = "e_wait"
    /\ mtx = "none"
    /\ "compute" \notin gen.cv_compute
    /\ OutputDrained(gen)
    /\ mtx' = "compute"
    /\ IF gen.stop_threads
       THEN cw' = [cw EXCEPT !.pc = "finish"] /\ UNCHANGED gen
       ELSE /\ gen' = SwapOutputAndClear(gen)
            /\ cw' = [cw EXCEPT !.pc = "pull", !.pullCaller = "replace"]
    /\ UNCHANGED <<rfVars, clientVars, obsVars, ltVars, mergeVars, inputFile, iw, ow>>

\* after the main loop: if (standby_output_busy) cv_compute.wait(...)
CW_Finish ==
    /\ cw.pc = "finish"
    /\ IF ~OutputDrained(gen)
       THEN /\ mtx' = "none"
            /\ gen' = Wait(gen, "cv_compute", "compute")
            /\ cw' = [cw EXCEPT !.pc = "f_wait1"]
       ELSE cw' = [cw EXCEPT !.pc = "f_flush"] /\ UNCHANGED <<gen, mtx>>
    /\ UNCHANGED <<rfVars, clientVars, obsVars, ltVars, mergeVars, inputFile, iw, ow>>

CW_FinishWake1 ==
    /\ cw.pc = "f_wait1"
    /\ mtx = "none"
    /\ "compute" \notin gen.cv_compute
    /\ OutputDrained(gen)
    /\ mtx' = "compute"
    /\ cw' = [cw EXCEPT !.pc = "f_flush"]
    /\ UNCHANGED <<rfVars, clientVars, obsVars, ltVars, mergeVars, gen, inputFile, iw, ow>>

\* the last block: swap, standby_output_busy = true, wait for the worker
CW_FinishFlush ==
    /\ cw.pc = "f_flush"
    /\ IF ActiveOut(gen) # << >>
       THEN IF gen.stop_threads
            THEN /\ gen' = SwapOutput(gen)
                 /\ cw' = [cw EXCEPT !.pc = "f_seal"]
                 /\ UNCHANGED mtx
            ELSE /\ gen' = Wait(SwapOutput(gen), "cv_compute", "compute")
                 /\ mtx' = "none"
                 /\ cw' = [cw EXCEPT !.pc = "f_wait2"]
       ELSE /\ cw' = [cw EXCEPT !.pc = "f_seal"]
            /\ UNCHANGED <<gen, mtx>>
    /\ UNCHANGED <<rfVars, clientVars, obsVars, ltVars, mergeVars, inputFile, iw, ow>>

CW_FinishWake2 ==
    /\ cw.pc = "f_wait2"
    /\ mtx = "none"
    /\ "compute" \notin gen.cv_compute
    /\ OutputDrained(gen)
    /\ mtx' = "compute"
    /\ cw' = [cw EXCEPT !.pc = "f_seal"]
    /\ UNCHANGED <<rfVars, clientVars, obsVars, ltVars, mergeVars, gen, inputFile, iw, ow>>

\* the last run is recorded, stop_threads = true, computeWorker returns and
\* its lock is released
CW_FinishSeal ==
    /\ cw.pc = "f_seal"
    /\ LET r == RecordRun(header, directory, disk, file_is_open, failbit, gen)
       IN  IF r.threw
           THEN /\ cw' = [cw EXCEPT !.pc = "threw"]
                /\ UNCHANGED <<directory, disk, gen>>
           ELSE /\ directory' = r.directory
                /\ disk' = r.disk
                /\ gen' = Notify(Notify([gen EXCEPT
                                             !.generatedRuns = r.generatedRuns,
                                             !.stop_threads = TRUE],
                                         "cv_input"), "cv_output")
                /\ cw' = [cw EXCEPT !.pc = "cw_done"]
    /\ hist' = RecordHistory(hist, gen,
                             RecordRun(header, directory, disk, file_is_open,
                                       failbit, gen))
    /\ mtx' = "none"
    /\ UNCHANGED <<file_is_open, failbit, header, clientVars, inBuf, trace, ltVars, mergeVars,
                   inputFile, iw, ow>>

\* inputFile.close(); return generatedRuns
GenerateRunsReturn ==
    /\ cw.pc = "cw_done"
    /\ inputFile' = [inputFile EXCEPT !.is_open = FALSE]
    /\ cw' = [cw EXCEPT !.pc = "returned"]
    /\ UNCHANGED <<rfVars, clientVars, obsVars, ltVars, mergeVars, gen, mtx, iw, ow>>

\* ~RunGenerator() while the exception of generateRuns unwinds main:
\* stop_threads = true, stored without the mutex
GeneratorDtor ==
    /\ cw.pc = "threw"
    /\ gen' = [gen EXCEPT !.stop_threads = TRUE]
    /\ cw' = [cw EXCEPT !.pc = "d_notify_input"]
    /\ UNCHANGED <<rfVars, clientVars, obsVars, ltVars, mergeVars, inputFile, mtx, iw, ow>>

\* cv_input.notify_all(), then cv_output.notify_all()
DtorNotify ==
    /\ cw.pc \in {"d_notify_input", "d_notify_output"}
    /\ gen' = Notify(gen, IF cw.pc = "d_notify_input" THEN "cv_input"
                          ELSE "cv_output")
    /\ cw' = [cw EXCEPT !.pc = IF cw.pc = "d_notify_input"
                               THEN "d_notify_output" ELSE "d_join_input"]
    /\ UNCHANGED <<rfVars, clientVars, obsVars, ltVars, mergeVars, inputFile, mtx, iw, ow>>

\* inputThread.join(), then outputThread.join(): each returns once its
\* thread has left the worker function
DtorJoin ==
    /\ \/ cw.pc = "d_join_input" /\ iw.pc = "exited"
       \/ cw.pc = "d_join_output" /\ ow.pc = "exited"
    /\ cw' = [cw EXCEPT !.pc = IF cw.pc = "d_join_input"
                               THEN "d_join_output" ELSE "destroyed"]
    /\ UNCHANGED <<rfVars, clientVars, obsVars, ltVars, mergeVars, gen, inputFile, mtx,
                   iw, ow>>

\* wait(lock, pred) may wake without a notification: with the mutex it tests
\* its predicate again, and blocks again unless the predicate holds
SpuriousWakeup ==
    /\ mtx = "none"
    /\ \E cv \in {"cv_input", "cv_output", "cv_compute"} :
           /\ gen[cv] # {}
           /\ IF cv = "cv_input" THEN InputMayRun(gen)
              ELSE IF cv = "cv_output" THEN OutputMayRun(gen)
              ELSE ComputeMayRun(gen, cw.pc)
           /\ gen' = Notify(gen, cv)
    /\ UNCHANGED <<rfVars, clientVars, obsVars, ltVars, mergeVars, inputFile, mtx, cw,
                   iw, ow>>

\* main: merger.externalMergeSort(initialRuns, runFile) with the runs that
\* generateRuns returned; the pushes onto mergeHeap
Main_ExternalMergeSort ==
    /\ cw.pc = "returned"
    /\ msPc = "idle"
    /\ initialRuns' = gen.generatedRuns
    /\ mergeHeap' = gen.generatedRuns
    /\ msPc' = "loop"
    /\ UNCHANGED <<rfVars, clientVars, obsVars, ltVars, genVars, mergeCost, lastMerge,
                   finalRun>>

NextSort ==
    \/ GenerateRuns
    \/ IW_Start
    \/ IW_Wake
    \/ IW_Block
    \/ IW_Read
    \/ IW_Publish
    \/ OW_Start
    \/ OW_Wake
    \/ OW_Block
    \/ OW_Write
    \/ OW_Publish
    \/ CW_Lock
    \/ CW_Fill
    \/ CW_Init
    \/ CW_Pull
    \/ CW_PullWake
    \/ CW_Rewait
    \/ CW_Loop
    \/ CW_BoundaryFlush
    \/ CW_BoundaryFlushWake
    \/ CW_BoundaryDrain
    \/ CW_BoundaryDrainWake
    \/ CW_BoundarySeal
    \/ CW_Emit
    \/ CW_EmitWake
    \/ CW_Finish
    \/ CW_FinishWake1
    \/ CW_FinishFlush
    \/ CW_FinishWake2
    \/ CW_FinishSeal
    \/ GenerateRunsReturn
    \/ GeneratorDtor
    \/ DtorNotify
    \/ DtorJoin
    \/ SpuriousWakeup
    \/ Main_ExternalMergeSort
    \/ MS_Merge
    \/ MS_Return
    \/ MS_ReturnEmpty

SpecSort == InitSort /\ [][NextSort]_vars

\* ceil(n / k)
CeilDiv(n, k) == (n + k - 1) \div k

\* the least e with 2^e >= r, which is ceil(log2(r)) for r >= 1
RECURSIVE CeilLog2(_)
CeilLog2(r) == IF r <= 1 THEN 0 ELSE 1 + CeilLog2((r + 1) \div 2)

\* the least directory size of at least ceil(N/k) + log2(ceil(N/k)) slots
\* (one slot for the empty input, where the logarithm is undefined)
ClaimedSlots(n, k) ==
    IF n = 0 THEN 1 ELSE CeilDiv(n, k) + CeilLog2(CeilDiv(n, k))

\* a slot for each of ceil(N/k) runs and for each merge of two of them
MergeTreeSlots(n, k) == IF n = 0 THEN 1 ELSE 2 * CeilDiv(n, k) - 1

\* the directory sizes the sorts are run on: the two above, and a directory
\* of one slot
SizedSlots(n, k) == {1, ClaimedSlots(n, k), MergeTreeSlots(n, k)}

\* main with the directory sized for the input: create(maxRuns), open()
InitSized ==
    \E data \in SeqsUpTo(SizedValues, MaxSizedLen) :
      \E memSize \in 1 .. MaxK, bufferSize \in {MaxBufSize} :
        \E maxRuns \in SizedSlots(Len(data), memSize) :
          /\ file_is_open = TRUE
          /\ failbit = FALSE
          /\ header = RunFileHeader(maxRuns)
          /\ directory = EmptyDirectory(maxRuns)
          /\ disk = [exists |-> TRUE, truncated |-> FALSE,
                        header |-> RunFileHeader(maxRuns),
                     dir |-> EmptyDirectory(maxRuns), data |-> << >>]
          /\ rfCall = Call("open", 0, TRUE)
          /\ phase = "open"
          /\ outBuf = NoBuffer
          /\ loserTree = NewLoserTree(memSize)
          /\ ltState = "constructed"
          /\ initialRuns = << >>
          /\ mergeHeap = << >>
          /\ msPc = "idle"
          /\ mergeCost = 0
          /\ lastMerge = NoMerge
          /\ finalRun = RunMetadata
          /\ gen = RunGenerator(memSize, bufferSize)
          /\ inputFile = [data |-> data, pos |-> 0, eof |-> FALSE,
                          is_open |-> FALSE]
          /\ mtx = "none"
          /\ cw = ComputeIdle
          /\ iw = WorkerIdle
          /\ ow = WorkerIdle
          /\ inBuf = NoInputBuffer
          /\ trace = << >>
          /\ hist = NoHistory
    /\ inBuf = NoInputBuffer
    /\ trace = << >>
    /\ hist = NoHistory

SpecSized == InitSized /\ [][NextSort]_vars

\* the steps of the three threads of generateRuns, up to its return or to
\* the end of the unwinding that follows its exception
InputThread == IW_Start \/ IW_Wake \/ IW_Block \/ IW_Read \/ IW_Publish

OutputThread == OW_Start \/ OW_Wake \/ OW_Block \/ OW_Write \/ OW_Publish

MainThread ==
    \/ CW_Lock \/ CW_Fill \/ CW_Init \/ CW_Pull \/ CW_PullWake \/ CW_Rewait
    \/ CW_Loop \/ CW_BoundaryFlush \/ CW_BoundaryFlushWake
    \/ CW_BoundaryDrain \/ CW_BoundaryDrainWake \/ CW_BoundarySeal
    \/ CW_Emit \/ CW_EmitWake \/ CW_Finish \/ CW_FinishWake1
    \/ CW_FinishFlush \/ CW_FinishWake2 \/ CW_FinishSeal
    \/ GenerateRuns \/ GenerateRunsReturn
    \/ GeneratorDtor \/ DtorNotify \/ DtorJoin

\* the inputs of the runs checked under fair scheduling
InitSortFair ==
    \E data \in SeqsUpTo(FairValues, MaxFairLen) :
      \E memSize \in 1 .. MaxK, bufferSize \in 1 .. MaxBufSize :
        \E maxRuns \in {1, MaxFairLen} :
          /\ file_is_open = TRUE
          /\ failbit = FALSE
          /\ header = RunFileHeader(maxRuns)
          /\ directory = EmptyDirectory(maxRuns)
          /\ disk = [exists |-> TRUE, truncated |-> FALSE,
                        header |-> RunFileHeader(maxRuns),
                     dir |-> EmptyDirectory(maxRuns), data |-> << >>]
          /\ rfCall = Call("open", 0, TRUE)
          /\ phase = "open"
          /\ outBuf = NoBuffer
          /\ loserTree = NewLoserTree(memSize)
          /\ ltState = "constructed"
          /\ initialRuns = << >>
          /\ mergeHeap = << >>
          /\ msPc = "idle"
          /\ mergeCost = 0
          /\ lastMerge = NoMerge
          /\ finalRun = RunMetadata
          /\ gen = RunGenerator(memSize, bufferSize)
          /\ inputFile = [data |-> data, pos |-> 0, eof |-> FALSE,
                          is_open |-> FALSE]
          /\ mtx = "none"
          /\ cw = ComputeIdle
          /\ iw = WorkerIdle
          /\ ow = WorkerIdle
          /\ inBuf = NoInputBuffer
          /\ trace = << >>
          /\ hist = NoHistory
    /\ inBuf = NoInputBuffer
    /\ trace = << >>
    /\ hist = NoHistory

\* fair scheduling: a thread that can take a step eventually takes one.
\* No wait() returns without a notification here, so that progress cannot
\* be owed to a spurious wake-up
NextSortFair == InputThread \/ OutputThread \/ MainThread

SpecSortFair ==
    /\ InitSortFair /\ [][NextSortFair]_vars
    /\ WF_vars(InputThread) /\ WF_vars(OutputThread) /\ WF_vars(MainThread)

\* ========================================================================
\* Properties
\* ========================================================================

\* (runID, value) lexicographic order, written out
LexLeq(a, b) == a.runID < b.runID \/ (a.runID = b.runID /\ a.value <= b.value)

\* linear scan over the k leaves for the minimum
RECURSIVE ScanMin(_, _, _)
ScanMin(leaves, i, best) ==
    IF i < 0 THEN best
    ELSE ScanMin(leaves, i - 1, IF LexLeq(leaves[i], best) THEN leaves[i] ELSE best)

NaiveMin(lt) == ScanMin(lt.leaves, lt.k - 2, lt.leaves[lt.k - 1])

\* C5: once initialize(data) has run, after any replaceWinner(value, runID)
\* and setWinnerToSentinel() calls, getWinner() is the minimum of the k
\* leaves under the (runID, value) order, as a linear scan computes it.
C5_WinnerIsNaiveMin ==
    ltState = "initialized" => getWinner(loserTree) = NaiveMin(loserTree)

\* C5 witness: a tree of k = 3 whose winner is a real key of run 2 while
\* another leaf is retired: replacements and a sentinel have gone through
C5_Witness ==
    /\ ltState = "initialized"
    /\ loserTree.k = 3
    /\ getWinner(loserTree) = RunNode(1, 2)
    /\ \E i \in 0 .. 2 : loserTree.leaves[i] = SENTINEL
    /\ \E i \in 0 .. 2 : loserTree.leaves[i] = RunNode(2, 2)

\* number of directory slots with isUsed = true
UsedSlots(dir) == Cardinality({i \in DOMAIN dir : dir[i].isUsed})

\* C7: the header's currentRunCount equals the number of directory slots
\* with isUsed = true, in every state create, open, allocateNewRun,
\* updateRunMetadata and close lead to.
C7_RunCountMatchesUsedSlots ==
    header.currentRunCount = UsedSlots(directory)

\* C7 witness: the file has been closed and opened again with a run in it
C7_Witness ==
    /\ rfCall.op = "open" /\ rfCall.ret = TRUE
    /\ file_is_open /\ ~failbit
    /\ UsedSlots(directory) > 0

\* the elements of a run's data range, read from the file
RunData(d, meta) == StreamRead(d, meta.startOffset, meta.elementCount)

\* C8: when the client closes the file and opens it again, open succeeds,
\* every directory entry loaded equals the entry held before the close, and
\* every run's data range holds the same elements.
C8_RoundTrip ==
    [][phase = "closed" /\ phase' = "open" =>
          /\ rfCall'.ret = TRUE
          /\ directory' = directory
          /\ \A i \in DOMAIN directory :
                 RunData(disk', directory'[i]) = RunData(disk, directory[i])]_vars

\* C8 witness: the file was opened again and holds a sealed run with data
C8_Witness ==
    /\ phase = "open" /\ rfCall.op = "open"
    /\ \E i \in DOMAIN directory :
           /\ directory[i].isUsed
           /\ directory[i].elementCount = 2
           /\ RunData(disk, directory[i]) = <<8, 7>>

\* C9: allocateNewRun returns the lowest free slot, sets it to
\* (isUsed = true, startOffset = 0, elementCount = 0) and leaves every other
\* slot unchanged; with no free slot it returns -1 and changes neither the
\* directory nor currentRunCount.
C9_AllocateNewRunFrame ==
    [][rfCall'.op = "allocateNewRun" =>
          LET free == {i \in DOMAIN directory : ~directory[i].isUsed}
              r == rfCall'.ret
          IN  IF free = {}
              THEN /\ r = -1
                   /\ directory' = directory
                   /\ disk'.dir = disk.dir
                   /\ header'.currentRunCount = header.currentRunCount
              ELSE /\ r \in free
                   /\ \A j \in free : r <= j
                   /\ DOMAIN directory' = DOMAIN directory
                   /\ directory'[r] = [startOffset |-> 0, elementCount |-> 0,
                                       isUsed |-> TRUE]
                   /\ \A i \in DOMAIN directory \ {r} :
                          directory'[i] = directory[i]
                   /\ \A i \in DOMAIN disk.dir \ {r} :
                          disk'.dir[i] = disk.dir[i]]_vars

\* C9 witness: slot 0 was handed out while slot 1, free as well, carries
\* an offset and a count written by updateRunMetadata
C9_Witness ==
    /\ rfCall.op = "allocateNewRun" /\ rfCall.ret = 0
    /\ header.maxRuns = 2
    /\ ~directory[1].isUsed /\ directory[1].elementCount > 0

\* C10: updateRunMetadata with runId outside [0, maxRuns) raises
\* out_of_range and leaves the directory unchanged; with runId in range it
\* changes only startOffset and elementCount of slot runId (not its isUsed,
\* not another slot), in memory and in the file.
C10_UpdateRunMetadataFrame ==
    [][rfCall'.op = "updateRunMetadata" =>
          LET runId == rfCall'.runId
          IN  IF runId < 0 \/ runId >= header.maxRuns
              THEN /\ rfCall'.ret = "out_of_range"
                   /\ directory' = directory
                   /\ disk' = disk
              ELSE /\ rfCall'.ret = "ok"
                   /\ DOMAIN directory' = DOMAIN directory
                   /\ directory'[runId].isUsed = directory[runId].isUsed
                   /\ \A i \in DOMAIN directory \ {runId} :
                          directory'[i] = directory[i]
                   /\ \A i \in DOMAIN disk.dir \ {runId} :
                          disk'.dir[i] = disk.dir[i]]_vars

\* C10 witness: a free slot was updated in range, next to a slot in use
C10_Witness ==
    /\ rfCall.op = "updateRunMetadata" /\ rfCall.ret = "ok" /\ rfCall.runId = 1
    /\ ~directory[1].isUsed /\ directory[1].elementCount > 0
    /\ directory[0].isUsed

\* ------------------------------------------------------------------------
\* C4: the run MergeInMem(A, B) returns for two runs A and B stored in the
\* run file has elementCount = A.elementCount + B.elementCount
C4_MergedCountIsSum ==
    lastMerge.called /\ ~lastMerge.threw =>
        lastMerge.mergedRun.elementCount =
            lastMerge.runA.elementCount + lastMerge.runB.elementCount

\* a run of two elements merged with a run of three, itself a merge result
C4_Witness ==
    /\ lastMerge.called /\ ~lastMerge.threw
    /\ lastMerge.runA.elementCount = 2
    /\ lastMerge.runB.elementCount = 3
    /\ lastMerge.mergedRun.elementCount = 5

\* ------------------------------------------------------------------------
\* the elementCounts of a sequence of runs
Sizes(runs) == [i \in 1 .. Len(runs) |-> runs[i].elementCount]

\* the smallest of a non-empty set of integers
MinOf(S) == CHOOSE x \in S : \A y \in S : x <= y

\* the sequence q without the elements at the positions i and j
Without(q, i, j) ==
    LET keep == {p \in 1 .. Len(q) : p # i /\ p # j}
        F[n \in 0 .. Len(q)] ==
            IF n = 0 THEN << >>
            ELSE IF n \in keep THEN Append(F[n - 1], q[n]) ELSE F[n - 1]
    IN  F[Len(q)]

\* the least total of (size of A + size of B) over all ways to merge runs of
\* the given sizes pairwise down to one run
RECURSIVE MinMergeCost(_)
MinMergeCost(sizes) ==
    IF Len(sizes) <= 1 THEN 0
    ELSE MinOf({sizes[p[1]] + sizes[p[2]] +
                MinMergeCost(Append(Without(sizes, p[1], p[2]),
                                    sizes[p[1]] + sizes[p[2]])) :
                p \in {q \in (1 .. Len(sizes)) \X (1 .. Len(sizes)) :
                          q[1] < q[2]}})

\* C6: when externalMergeSort has returned, the sum of runA.elementCount +
\* runB.elementCount over the merges it made is the least cost of any binary
\* merge tree on the initial run sizes (the cost of the Huffman tree)
C6_MergeCostIsOptimal ==
    msPc = "done" => mergeCost = MinMergeCost(Sizes(initialRuns))

\* three runs of sizes 2, 1, 1 merged at cost 6; merging the run of size 2
\* first would have cost 7
C6_Witness ==
    /\ msPc = "done"
    /\ Sizes(initialRuns) = <<2, 1, 1>>
    /\ mergeCost = 6

\* ------------------------------------------------------------------------
\* is the sequence non-decreasing
IsSorted(q) == \A i \in 1 .. Len(q) - 1 : q[i] <= q[i + 1]

\* how often x occurs in q
Occurrences(q, x) == Cardinality({i \in 1 .. Len(q) : q[i] = x})

\* the same elements, each as often
SameMultiset(p, q) ==
    /\ Len(p) = Len(q)
    /\ \A x \in GenValues \cup {0} : Occurrences(p, x) = Occurrences(q, x)

\* C1: for a non-empty input file, the final run externalMergeSort returns
\* after generateRuns holds, read from its startOffset, the elements of the
\* input file in non-decreasing order
C1_FinalRunIsSortedInput ==
    msPc = "done" /\ Len(inputFile.data) > 0 =>
        /\ finalRun.elementCount = Len(inputFile.data)
        /\ IsSorted(RunData(disk, finalRun))
        /\ SameMultiset(RunData(disk, finalRun), inputFile.data)

\* the input 3, 2, 1 with k = 1: three runs, two merges
C1_Witness ==
    /\ msPc = "done"
    /\ inputFile.data = <<3, 2, 1>>
    /\ gen.K = 1
    /\ Len(initialRuns) = 3
    /\ RunData(disk, finalRun) = <<1, 2, 3>>

\* the sum of the elementCounts of a sequence of runs
RECURSIVE SumCounts(_)
SumCounts(runs) ==
    IF runs = << >> THEN 0 ELSE Head(runs).elementCount + SumCounts(Tail(runs))

\* C2: when generateRuns has returned normally, the elementCounts of the
\* returned runs add up to the number of elements of the input file
C2_RunCountsSumToN ==
    cw.pc = "returned" => SumCounts(gen.generatedRuns) = Len(inputFile.data)

\* three elements returned as two runs
C2_Witness ==
    /\ cw.pc = "returned"
    /\ Len(inputFile.data) = 3
    /\ Len(gen.generatedRuns) = 2
    /\ gen.bufSize = 2

\* C3: every run generateRuns returned is non-decreasing on disk
C3_ReturnedRunsSorted ==
    cw.pc = "returned" =>
        \A i \in 1 .. Len(gen.generatedRuns) :
            IsSorted(RunData(disk, gen.generatedRuns[i]))

\* the input 2, 3, 1 with k = 1 returned as the runs 2, 3 and 1
C3_Witness ==
    /\ cw.pc = "returned"
    /\ inputFile.data = <<2, 3, 1>>
    /\ Len(gen.generatedRuns) = 2
    /\ RunData(disk, gen.generatedRuns[1]) = <<2, 3>>
    /\ RunData(disk, gen.generatedRuns[2]) = <<1>>

\* ------------------------------------------------------------------------
\* the file at the path does not begin with a complete header carrying "RUNS"
NoValidHeader(d) == d.exists /\ (d.truncated \/ d.header.magic # "RUNS")

\* C11: open() on a closed RunFile whose file does not begin with a complete
\* header carrying the magic "RUNS" returns false and leaves the RunFile
\* closed, whatever header the object held before
C11_OpenRefusesInvalidFile ==
    [][rfCall'.op = "open" /\ ~file_is_open /\ NoValidHeader(disk) =>
          rfCall'.ret = FALSE /\ ~file_is_open']_vars

\* open() has returned true on an empty file and holds it open
C11_Witness ==
    /\ rfCall.op = "open" /\ rfCall.ret = TRUE
    /\ disk.truncated
    /\ file_is_open

\* ------------------------------------------------------------------------
\* the element stored in the file d at byte offset off
ElementAt(d, off) == d.data[(off - DataStart(d.header.maxRuns)) \div SizeofT + 1]

\* C12: the first n = elementCount calls of getNextItem return true and the
\* i-th of them (from 0) yields the element at startOffset + i * sizeof(T);
\* every later call returns false
C12_InputBufferYieldsRun ==
    \A c \in 1 .. Len(trace) :
        IF c <= inBuf.runMeta.elementCount
        THEN /\ trace[c].ok
             /\ trace[c].item =
                    ElementAt(disk, inBuf.runMeta.startOffset + (c - 1) * SizeofT)
        ELSE ~trace[c].ok

\* the second run, of three elements, read in blocks of two, and one call
\* more that returned false
C12_Witness ==
    /\ inBuf.runMeta = initialRuns[2]
    /\ initialRuns[1].elementCount = 1
    /\ inBuf.bufferSizeInElements = 2
    /\ Len(trace) = 4
    /\ <<trace[1].item, trace[2].item, trace[3].item>> = <<7, 8, 8>>
    /\ ~trace[4].ok

\* ------------------------------------------------------------------------
\* the items handed to setNextItem, in call order
RECURSIVE ItemsOf(_)
ItemsOf(t) ==
    IF t = << >> THEN << >>
    ELSE IF Head(t).op = "setNextItem" THEN <<Head(t).item>> \o ItemsOf(Tail(t))
    ELSE ItemsOf(Tail(t))

\* the blocks handed to the stream, in call order, glued together
RECURSIVE WrittenOf(_)
WrittenOf(t) ==
    IF t = << >> THEN << >> ELSE Head(t).write.block \o WrittenOf(Tail(t))

\* every write of the trace starts where the writes before it ended
WritesAreSuccessive(t, startOffset) ==
    \A c \in 1 .. Len(t) :
        t[c].write # NoWrite =>
            t[c].write.off =
                startOffset + Len(WrittenOf(SubSeq(t, 1, c - 1))) * SizeofT

\* C13: after m setNextItem calls interleaved with flush calls,
\* getElementCount() = m; right after a flush the file holds the m items in
\* call order from startOffset on; and the blocks written so far are the
\* items in call order, each written once, at successive offsets
C13_OutputBufferWritesItems ==
    LET items == ItemsOf(trace)
    IN  /\ GetElementCount(outBuf) = Len(items)
        /\ (trace # << >> /\ trace[Len(trace)].op = "flush" =>
                StreamRead(disk, outBuf.runStartOffset, Len(items)) = items)
        /\ WrittenOf(trace) = SubSeq(items, 1, outBuf.totalElementsWritten)
        /\ WritesAreSuccessive(trace, outBuf.runStartOffset)

\* three items through a block of two, a flush in the middle of the second
\* block and one at the end, behind a run already in the file
C13_Witness ==
    /\ outBuf.bufferSizeInElements = 2
    /\ initialRuns[1].elementCount = 1
    /\ Len(trace) = 5
    /\ ItemsOf(trace) = <<7, 8, 8>>
    /\ trace[4].op = "flush" /\ trace[5].op = "flush"
    /\ trace[1].op = "setNextItem" /\ trace[2].op = "setNextItem"
    /\ Len(disk.data) = 4

\* ------------------------------------------------------------------------
\* C14: the elements stored in the data range of every run generateRuns has
\* recorded are the winners the compute loop emitted for that run, in order;
\* and the blocks the output worker has written for the run in progress went
\* to strictly increasing offsets
C14_RunDataIsEmittedSequence ==
    /\ Len(hist.runsEmitted) = Len(gen.generatedRuns)
    /\ \A i \in 1 .. Len(gen.generatedRuns) :
           RunData(disk, gen.generatedRuns[i]) = hist.runsEmitted[i]
    /\ \A a \in 1 .. Len(hist.writes), b \in 1 .. Len(hist.writes) :
           a < b => hist.writes[a].off < hist.writes[b].off

\* a run of three elements written as two blocks, recorded, and a second run
C14_Witness ==
    /\ cw.pc = "returned"
    /\ gen.bufSize = 2
    /\ hist.runsEmitted = << <<1, 2, 3>>, <<1>> >>
    /\ RunData(disk, gen.generatedRuns[1]) = <<1, 2, 3>>

\* ------------------------------------------------------------------------
\* C15: on a freshly created run file the compute thread is issued run ids in
\* strictly increasing order and seals them in the same order, and the
\* updateRunMetadata call that seals a run precedes the allocateNewRun call
\* that issues the next one
IssuedAt == {p \in 1 .. Len(hist.calls) :
                hist.calls[p].op = "allocateNewRun" /\ hist.calls[p].runId >= 0}

SealedAt == {p \in 1 .. Len(hist.calls) :
                hist.calls[p].op = "updateRunMetadata" /\ ~hist.calls[p].threw}

C15_RunIdsIssuedAndSealedInOrder ==
    /\ \A p \in IssuedAt, q \in IssuedAt :
           p < q => hist.calls[p].runId < hist.calls[q].runId
    /\ \A p \in SealedAt, q \in SealedAt :
           p < q => hist.calls[p].runId < hist.calls[q].runId
    /\ \A s \in SealedAt :
           \E p \in IssuedAt : p < s /\ hist.calls[p].runId = hist.calls[s].runId
    /\ \A p \in IssuedAt, q \in IssuedAt :
           p < q => \E s \in SealedAt :
                        /\ p < s /\ s < q
                        /\ hist.calls[s].runId = hist.calls[p].runId

\* three runs were issued and sealed one after the other
C15_Witness ==
    /\ cw.pc = "returned"
    /\ Len(hist.calls) = 6
    /\ [p \in 1 .. 6 |-> hist.calls[p].runId] = <<0, 0, 1, 1, 2, 2>>
    /\ SealedAt = {2, 4, 6}

\* ------------------------------------------------------------------------
\* C16: with a directory slot for every run, under fair scheduling of the
\* three threads generateRuns returns, and both workers have left their loops
EnoughSlots == header.maxRuns >= MaxFairLen

C16_GenerateRunsTerminates ==
    EnoughSlots ~> (cw.pc = "returned" /\ iw.pc = "exited" /\ ow.pc = "exited")

\* generateRuns has returned two runs, the second written as two blocks, and
\* both workers have exited
C16_Witness ==
    /\ EnoughSlots
    /\ cw.pc = "returned"
    /\ iw.pc = "exited" /\ ow.pc = "exited"
    /\ Len(gen.generatedRuns) = 2
    /\ Len(hist.writes) = 2

\* ------------------------------------------------------------------------
\* C17: when generateRuns has thrown after starting its workers, under fair
\* scheduling both workers exit and the joins of the destructor return
C17_WorkersJoinedAfterError ==
    (cw.pc = "threw") ~> (cw.pc = "destroyed" /\ iw.pc = "exited" /\ ow.pc = "exited")

\* the flag is set and both notifications were sent, while the input worker
\* is blocked in cv_input.wait
C17_Witness ==
    /\ cw.pc = "d_join_input"
    /\ gen.stop_threads
    /\ iw.pc = "blocked"
    /\ "input" \in gen.cv_input

\* ------------------------------------------------------------------------
\* C18: once an allocateNewRun call of generateRuns has returned -1,
\* generateRuns does not return normally
AllocationFailed ==
    \E p \in 1 .. Len(hist.calls) :
        hist.calls[p].op = "allocateNewRun" /\ hist.calls[p].runId = -1

C18_FailedAllocationSurfaces ==
    AllocationFailed => cw.pc \notin {"cw_done", "returned"}

\* a failed allocation at a run boundary was followed by the exception of
\* updateRunMetadata
C18_Witness ==
    /\ AllocationFailed
    /\ Len(hist.calls) = 4
    /\ hist.calls[4].threw
    /\ cw.pc = "threw"

\* ------------------------------------------------------------------------
\* C19: on a directory of at least ceil(N/k) + log2(ceil(N/k)) slots no
\* allocateNewRun of generateRuns or of externalMergeSort returns -1
DirectoryRanOut == AllocationFailed \/ (lastMerge.called /\ lastMerge.threw)

C19_ClaimedSlotsSuffice ==
    header.maxRuns >= ClaimedSlots(Len(inputFile.data), gen.K) => ~DirectoryRanOut

\* C19 with the size the code needs: on a directory of at least
\* max(1, 2 * ceil(N/k) - 1) slots no allocateNewRun of generateRuns or of
\* externalMergeSort returns -1
C19_MergeTreeSlotsSuffice ==
    header.maxRuns >= MergeTreeSlots(Len(inputFile.data), gen.K) => ~DirectoryRanOut

\* four runs of one element each merged into the final run on a directory of
\* seven slots, all of them used
C19_Witness ==
    /\ Len(inputFile.data) = 4
    /\ gen.K = 1
    /\ header.maxRuns = 7
    /\ Len(initialRuns) = 4
    /\ msPc = "done"
    /\ FreeSlots(header, directory) = {}

\* ------------------------------------------------------------------------
\* C20: the byte ranges of any two sealed runs of the run file are disjoint
\* and lie after the directory region, and no write of generateRuns or of a
\* merge falls inside the range of a run that was sealed before the write
SealedRuns(dir) == {i \in DOMAIN dir : dir[i].isUsed /\ dir[i].elementCount > 0}

RunEnd(meta) == meta.startOffset + meta.elementCount * SizeofT

Disjoint(lo1, hi1, lo2, hi2) == hi1 <= lo2 \/ hi2 <= lo1

SealedRunsApart ==
    /\ \A i \in SealedRuns(directory), j \in SealedRuns(directory) :
           i # j => Disjoint(directory[i].startOffset, RunEnd(directory[i]),
                             directory[j].startOffset, RunEnd(directory[j]))
    /\ \A i \in SealedRuns(directory) :
           directory[i].startOffset >= DataStart(header.maxRuns)

\* the writes of the step: the block the output worker wrote, the blocks the
\* OutputBuffer of MergeInMem wrote
NewWrites ==
    (IF Len(hist'.writes) > Len(hist.writes)
     THEN {hist'.writes[Len(hist'.writes)]} ELSE {})
    \cup (IF lastMerge' # lastMerge
          THEN {lastMerge'.writes[p] : p \in 1 .. Len(lastMerge'.writes)}
          ELSE {})

NoWriteIntoSealedRun ==
    \A w \in NewWrites : \A i \in SealedRuns(directory) :
        Disjoint(w.off, w.off + Len(w.block) * SizeofT,
                 directory[i].startOffset, RunEnd(directory[i]))

C20_SealedRunsDisjointAndAppendOnly ==
    []SealedRunsApart /\ [][NoWriteIntoSealedRun]_vars

\* two runs of generateRuns and their merge are sealed, the merge having
\* written two blocks
C20_Witness ==
    /\ msPc = "done"
    /\ Cardinality(SealedRuns(directory)) = 3
    /\ Len(hist.writes) > 0
    /\ Len(lastMerge.writes) = 2

\* ------------------------------------------------------------------------
\* C21: for a non-decreasing input of N >= 1 elements generateRuns returns
\* exactly one run, of N elements, and externalMergeSort returns that run
\* without a merge
C21_SortedInputIsOneRun ==
    Len(inputFile.data) >= 1 /\ IsSorted(inputFile.data) =>
        /\ cw.pc = "returned" =>
              /\ Len(gen.generatedRuns) = 1
              /\ gen.generatedRuns[1].elementCount = Len(inputFile.data)
        /\ msPc = "done" =>
              /\ ~lastMerge.called
              /\ mergeCost = 0
              /\ finalRun = gen.generatedRuns[1]
              /\ RunData(disk, finalRun) = inputFile.data

\* the input 1, 2, 2, 3 with k = 2 came back from externalMergeSort as it is
C21_Witness ==
    /\ inputFile.data = <<1, 2, 2, 3>>
    /\ gen.K = 2
    /\ msPc = "done"
    /\ finalRun.elementCount = 4
    /\ RunData(disk, finalRun) = <<1, 2, 2, 3>>


\* the winner of the subtree below position p as the tree records it: a
\* position p >= k is leaf p - k, an internal node passes up the child's
\* winner it does not keep
RECURSIVE RecordedWinner(_, _)
RecordedWinner(lt, p) ==
    IF p >= lt.k THEN p - lt.k
    ELSE IF lt.tree[p] = RecordedWinner(lt, 2 * p)
         THEN RecordedWinner(lt, 2 * p + 1)
         ELSE RecordedWinner(lt, 2 * p)

\* tree[i] is one of the two winners that meet at node i and the other one
\* is not behind it in the (runID, value) order
HoldsLoser(lt, i) ==
    /\ lt.tree[i] \in {RecordedWinner(lt, 2 * i), RecordedWinner(lt, 2 * i + 1)}
    /\ LexLeq(lt.leaves[RecordedWinner(lt, i)], lt.leaves[lt.tree[i]])

\* C22: after initialize and after every replaceWinner / setWinnerToSentinel
\* tree[0] is the index of a minimal leaf under (runID, value), every
\* internal node 1..k-1 holds the loser of the match between the winners of
\* its two subtrees, and leaves[k] is the sentinel
C22_TreeHoldsLosers ==
    ltState = "initialized" =>
        /\ loserTree.tree[0] \in 0 .. loserTree.k - 1
        /\ loserTree.tree[0] = RecordedWinner(loserTree, 1)
        /\ \A j \in 0 .. loserTree.k - 1 :
               LexLeq(loserTree.leaves[loserTree.tree[0]], loserTree.leaves[j])
        /\ \A i \in 1 .. loserTree.k - 1 : HoldsLoser(loserTree, i)
        /\ loserTree.leaves[loserTree.k] = SENTINEL

\* C22 witness: a tree of k = 3 where the losers kept at nodes 1 and 2 are a
\* retired leaf and a key of run 2, the winner being a key of run 1
C22_Witness ==
    /\ ltState = "initialized"
    /\ loserTree.k = 3
    /\ getWinner(loserTree) = RunNode(2, 1)
    /\ {loserTree.leaves[loserTree.tree[1]], loserTree.leaves[loserTree.tree[2]]}
           = {SENTINEL, RunNode(1, 2)}


\* the compute thread is inside the while (true) of computeWorker
InComputeLoop ==
    \/ cw.pc \in {"loop", "b_flush", "b_flush_wait", "b_drain", "b_drain_wait",
                  "b_seal", "emit", "e_wait"}
    \/ cw.pc \in {"pull", "pull_wait"} /\ cw.pullCaller # "fill"

\* the compute thread is in step C, the winner read at the top of the
\* iteration belonging to a later run than the one being written
AtRunBoundary ==
    cw.pc \in {"b_flush", "b_flush_wait", "b_drain", "b_drain_wait", "b_seal"}

\* run ids of the leaves that hold a key
LiveRunIDs(lt) ==
    {lt.leaves[i].runID : i \in {j \in 0 .. lt.k - 1 : lt.leaves[j] # SENTINEL}}

\* C23: throughout the compute loop the run ids of the non-sentinel leaves
\* lie in {currentTreeRunID, currentTreeRunID + 1}, and at a run boundary
\* the winner's run id is currentTreeRunID + 1
C23_RunIdsWithinTwo ==
    InComputeLoop =>
        /\ LiveRunIDs(loserTree) \subseteq
               {cw.currentTreeRunID, cw.currentTreeRunID + 1}
        /\ AtRunBoundary => cw.winnerNode.runID = cw.currentTreeRunID + 1

\* C23 witness: the second run boundary, the tree holding keys of run 3 only
\* while run 2 is being closed
C23_Witness ==
    /\ cw.pc = "b_seal"
    /\ cw.currentTreeRunID = 2
    /\ cw.winnerNode.runID = 3
    /\ LiveRunIDs(loserTree) = {3}

\* C23, second witness: keys of the current and of the next run are in the
\* tree together
C23_WitnessTwoRuns ==
    /\ cw.pc = "loop"
    /\ LiveRunIDs(loserTree) = {cw.currentTreeRunID, cw.currentTreeRunID + 1}


\* ------------------------------------------------------------------------
\* a step of externalMergeSort that calls MergeInMem
MergeStep == lastMerge'.count # lastMerge.count

\* the runs at the positions i and j of the pending runs are the ones handed
\* to MergeInMem, no other pending run is smaller than either, and the
\* merged run takes their place
TookTwoSmallest(i, j) ==
    /\ lastMerge'.runA = mergeHeap[i]
    /\ lastMerge'.runB = mergeHeap[j]
    /\ lastMerge'.runA.elementCount <= lastMerge'.runB.elementCount
    /\ \A p \in (1 .. Len(mergeHeap)) \ {i, j} :
           mergeHeap[p].elementCount >= lastMerge'.runB.elementCount
    /\ ~lastMerge'.threw =>
           mergeHeap' = Append(Without(mergeHeap, i, j), lastMerge'.mergedRun)

MergesTwoSmallest ==
    MergeStep =>
        /\ Len(mergeHeap) > 1
        /\ lastMerge'.count = lastMerge.count + 1
        /\ \E i, j \in 1 .. Len(mergeHeap) : i # j /\ TookTwoSmallest(i, j)

\* externalMergeSort returns from the loop
ReturnsWithOneRun ==
    msPc = "loop" /\ msPc' = "done" /\ Len(initialRuns) >= 1 =>
        /\ Len(mergeHeap) = 1
        /\ finalRun' = mergeHeap[1]

MergeCountOnReturn ==
    msPc = "done" /\ Len(initialRuns) >= 1 =>
        lastMerge.count = Len(initialRuns) - 1

\* C24: every iteration of externalMergeSort hands MergeInMem the two runs
\* of smallest elementCount among the pending ones and pushes the merged run
\* back; the loop is left with exactly one run pending, after n - 1 merges
\* for n >= 1 initial runs
C24_TwoSmallestMergedUntilOneLeft ==
    /\ [][MergesTwoSmallest /\ ReturnsWithOneRun]_vars
    /\ []MergeCountOnReturn

\* C24 witness: runs of 2, 1 and 2 elements; the second merge takes the run
\* of 2 and the merged run of 3
C24_Witness ==
    /\ msPc = "done"
    /\ Sizes(initialRuns) = <<2, 1, 2>>
    /\ lastMerge.count = 2
    /\ lastMerge.runA.elementCount = 2
    /\ lastMerge.runB.elementCount = 3
    /\ finalRun.elementCount = 5


\* ------------------------------------------------------------------------
\* how many of the first n - 1 elements of a merge came from the input src
TakenBefore(order, n, src) ==
    Cardinality({m \in 1 .. n - 1 : order[m] = src})

\* the n-th element of the merge was taken while both runs had a head: it
\* came from A exactly when A's head was strictly smaller than B's
TieGoesToB(order, dataA, dataB, n) ==
    LET a == TakenBefore(order, n, "A")
        b == TakenBefore(order, n, "B")
    IN  a < Len(dataA) /\ b < Len(dataB) =>
            (order[n] = "A" <=> dataA[a + 1] < dataB[b + 1])

\* C25: in MergeInMem, while both runs have a head, A's head is emitted
\* first only when it is strictly smaller than B's; on equal heads B's
\* element is emitted before A's
C25_EqualHeadsEmitBFirst ==
    lastMerge.called /\ ~lastMerge.threw =>
        \A n \in 1 .. Len(lastMerge.order) :
            TieGoesToB(lastMerge.order, RunData(disk, lastMerge.runA),
                       RunData(disk, lastMerge.runB), n)

\* C25 witness: two runs 1, 2 merged, each tie resolved for B
C25_Witness ==
    /\ lastMerge.called /\ ~lastMerge.threw
    /\ RunData(disk, lastMerge.runA) = <<1, 2>>
    /\ RunData(disk, lastMerge.runB) = <<1, 2>>
    /\ lastMerge.order = <<"B", "A", "B", "A">>


\* ------------------------------------------------------------------------
\* the pullNextInput call returned true
PullSucceeded(p) == p.ok

\* the values the successful pullNextInput calls returned, in call order
Pulled == SelectSeq(hist.pulls, PullSucceeded)

\* C26: under every interleaving the values pullNextInput returns with true
\* are the elements of the input file in file order, each once; it returns
\* false only when all N have been returned, and by the time computeWorker
\* is done all N have been
C26_PullsAreInputInOrder ==
    /\ Len(Pulled) <= Len(inputFile.data)
    /\ \A i \in 1 .. Len(Pulled) : Pulled[i].val = inputFile.data[i]
    /\ \A i \in 1 .. Len(hist.pulls) :
           ~hist.pulls[i].ok =>
               Len(SelectSeq(SubSeq(hist.pulls, 1, i), PullSucceeded))
                   = Len(inputFile.data)
    /\ cw.pc \in {"cw_done", "returned"} => Len(Pulled) = Len(inputFile.data)

\* C26 witness: four elements went through blocks of one element, the pulls
\* of the initial fill and of the loop together returned them in file order,
\* then false
C26_Witness ==
    /\ inputFile.data = <<3, 1, 3, 2>>
    /\ gen.bufSize = 1
    /\ gen.K = 2
    /\ Len(hist.pulls) >= 5
    /\ [i \in 1 .. 4 |-> hist.pulls[i].val] = <<3, 1, 3, 2>>
    /\ ~hist.pulls[5].ok


\* ------------------------------------------------------------------------
\* the input worker has released the mutex to fill standbyIn and has not
\* taken it back; the output worker likewise around its write of standbyOut
InputWorkerInIO == iw.pc \in {"reading", "relock"}

OutputWorkerInIO == ow.pc \in {"writing", "relock"}

\* a step of another thread while the input worker is in its I/O section
\* leaves the input pointers and the block being filled alone
InputBlockLeftAlone ==
    InputWorkerInIO /\ iw' = iw =>
        /\ gen'.activeIn = gen.activeIn
        /\ StandbyIn(gen') = StandbyIn(gen)

\* a step of another thread while the output worker is in its I/O section
\* leaves the output pointers and the block being written alone
OutputBlockLeftAlone ==
    OutputWorkerInIO /\ ow' = ow =>
        /\ gen'.activeOut = gen.activeOut
        /\ StandbyOut(gen') = StandbyOut(gen)

\* the input pointers are swapped only with standby_input_ready set, the
\* output pointers only with standby_output_busy clear
SwapsOnlyWhenHandedOver ==
    /\ gen'.activeIn # gen.activeIn =>
           gen.standby_input_ready /\ ~InputWorkerInIO
    /\ gen'.activeOut # gen.activeOut =>
           ~gen.standby_output_busy /\ ~OutputWorkerInIO

\* C27: while the input worker fills standbyIn or the output worker writes
\* standbyOut with the mutex released, the compute thread neither modifies
\* that block nor swaps that pair of pointers; input pointers are swapped
\* only when standby_input_ready is true, output pointers only when
\* standby_output_busy is false
C27_StandbyBlocksNotShared ==
    [][InputBlockLeftAlone /\ OutputBlockLeftAlone /\ SwapsOnlyWhenHandedOver]_vars

\* C27 witness: both workers are in their I/O sections at once, the compute
\* thread being in its loop after a swap of the output pair
C27_Witness ==
    /\ iw.pc = "reading"
    /\ ow.pc = "writing"
    /\ InComputeLoop
    /\ gen.activeOut = "B"
    /\ ~gen.standby_input_ready
    /\ gen.standby_output_busy


\* ------------------------------------------------------------------------
\* a step in which the thread running generateRuns calls allocateNewRun,
\* getAppendOffset or updateRunMetadata: the allocation before the workers
\* are started, the sealing at a run boundary, the sealing of the last run
RunFileOpStep ==
    \/ cw.pc = "idle" /\ cw'.pc = "lock"
    \/ cw.pc = "b_seal" /\ cw'.pc # "b_seal"
    \/ cw.pc = "f_seal" /\ cw'.pc # "f_seal"

\* C28: during generateRuns the compute thread calls allocateNewRun,
\* updateRunMetadata and getAppendOffset only while standby_output_busy is
\* false and the output worker is outside its seek/write section
C28_RunFileOpsWhileOutputIdle ==
    [][RunFileOpStep => ~gen.standby_output_busy /\ ~OutputWorkerInIO]_vars

\* C28 witness: a run boundary was sealed after the output worker had
\* written a block of two elements, and the next run is being emitted
C28_Witness ==
    /\ cw.pc = "emit"
    /\ Len(gen.generatedRuns) = 1
    /\ gen.generatedRuns[1].elementCount = 2
    /\ Len(hist.calls) = 3
    /\ hist.calls[2].op = "updateRunMetadata"
    /\ hist.calls[3].op = "allocateNewRun"
    /\ ow.count = 2


\* ------------------------------------------------------------------------
\* C29: generateRuns closes the input file only when the input worker can
\* no longer be inside a read of it
C29_CloseAfterLastRead ==
    [][inputFile.is_open /\ ~inputFile'.is_open => iw.pc # "reading"]_vars

\* generateRuns has closed the input file and returned while the input
\* worker, the mutex released, is inside inputFile.read
C29_Witness ==
    /\ cw.pc = "returned"
    /\ ~inputFile.is_open
    /\ iw.pc = "reading"
    /\ Len(inputFile.data) = 1
    /\ gen.stop_threads


\* ------------------------------------------------------------------------
\* C30: of the runs generateRuns returns, every one but the last holds at
\* least k elements; N >= 1 elements give at least one and at most
\* ceil(N/k) runs, and exactly one run when N <= k
C30_RunsHoldAtLeastK ==
    cw.pc = "returned" =>
        /\ \A i \in 1 .. Len(gen.generatedRuns) - 1 :
               gen.generatedRuns[i].elementCount >= gen.K
        /\ Len(inputFile.data) >= 1 =>
               /\ Len(gen.generatedRuns) >= 1
               /\ Len(gen.generatedRuns) <= CeilDiv(Len(inputFile.data), gen.K)
        /\ Len(inputFile.data) >= 1 /\ Len(inputFile.data) <= gen.K =>
               Len(gen.generatedRuns) = 1

\* C30 witness: 2, 3, 1, 1 with k = 2 comes back as a run of two elements
\* and a last run of two, ceil(4/2) runs
C30_Witness ==
    /\ cw.pc = "returned"
    /\ inputFile.data = <<2, 3, 1, 1>>
    /\ gen.K = 2
    /\ Sizes(gen.generatedRuns) = <<2, 2>>

\* C30, second witness: a last run shorter than k after a run longer than k
C30_WitnessShortLastRun ==
    /\ cw.pc = "returned"
    /\ gen.K = 2
    /\ Sizes(gen.generatedRuns) = <<3, 1>>


\* ------------------------------------------------------------------------
\* the directory slots with isUsed = true
UsedSlotSet(dir) == {i \in DOMAIN dir : dir[i].isUsed}

\* the directory slots whose entry is one of the returned runs
ReturnedSlots(dir, runs) ==
    {i \in DOMAIN dir : \E r \in 1 .. Len(runs) : runs[r] = dir[i]}

\* C31: when generateRuns has returned normally on a freshly created run
\* file, the slots with isUsed = true are exactly the runs of the returned
\* vector, each sealed with elementCount > 0, for every input, the empty one
\* included (msPc = "idle": no merge has allocated a slot yet)
C31_UsedSlotsAreReturnedRuns ==
    cw.pc = "returned" /\ msPc = "idle" =>
        /\ UsedSlotSet(directory) = ReturnedSlots(directory, gen.generatedRuns)
        /\ Cardinality(UsedSlotSet(directory)) = Len(gen.generatedRuns)
        /\ \A i \in UsedSlotSet(directory) : directory[i].elementCount > 0

\* generateRuns has returned no run for the empty input and slot 0 of the
\* directory is marked used with elementCount = 0
C31_Witness ==
    /\ cw.pc = "returned"
    /\ msPc = "idle"
    /\ inputFile.data = << >>
    /\ gen.generatedRuns = << >>
    /\ header.maxRuns >= 1
    /\ directory[0].isUsed
    /\ directory[0].elementCount = 0

=============================================================================
